---- MODULE Spec2Model ----
(***************************************************************************)
(* Expense tracker backend: the authentication gate, the auth routes, the  *)
(* category and transaction routes, and the MySQL tables they work on.     *)
(*                                                                         *)
(* A request is a process.  Every `await connection.execute(...)` of a     *)
(* handler is one atomic step (a single autocommit statement); the         *)
(* synchronous JavaScript between two awaits belongs to the step that      *)
(* precedes it.  `await pool.getConnection()` is folded into the first     *)
(* statement of the handler (it touches nothing but the pool counter).     *)
(* The response of a request is recorded in `resp` by the step that sends  *)
(* it; every other step resets `resp` to NoResp.                           *)
(***************************************************************************)
EXTENDS Integers, Sequences, FiniteSets, TLC

VARIABLES
    users,          \* table users
    categories,     \* table categories
    transactions,   \* table transactions
    nextUserId,     \* AUTO_INCREMENT counter of users
    nextCatId,      \* AUTO_INCREMENT counter of categories
    nextTxId,       \* AUTO_INCREMENT counter of transactions
    tokens,         \* every token generateToken has signed so far
    now,            \* the server clock
    checkedOut,     \* pool connections currently checked out
    req,            \* the requests in flight, by slot
    resp,           \* the response sent by the last step, or NoResp
    client          \* the AuthProvider of one browser tab, its localStorage and axios

vars == <<users, categories, transactions, nextUserId, nextCatId, nextTxId,
          tokens, now, checkedOut, req, resp, client>>

tables == <<users, categories, transactions>>

-----------------------------------------------------------------------------
(* Bounds of the model *)

\* user-created category rows the AUTO_INCREMENT counter may hand out
MaxNewCats == 1
\* transaction rows the AUTO_INCREMENT counter may hand out
MaxNewTxs == 2
\* ticks of the server clock
MaxClock == 3
\* user rows the AUTO_INCREMENT counter may hand out
MaxUsers == 2
\* tokens the server issues (the ones of the initial state aside)
MaxTokens == 1

\* default category rows the seeding loops may insert beyond the first twelve
MaxReseeded == 1
\* calls of login the browser tab makes
MaxClientLogins == 2

\* request slots: at most two requests are in flight at a time
AllSlots == {1, 2}

-----------------------------------------------------------------------------
(* Values *)

NULL == 0                   \* SQL NULL in a numeric column
NullStr == "<null>"         \* SQL NULL / JS null in a string column
Absent == "<undefined>"     \* a body field that was not sent

connectionLimit == 10
JWT_EXPIRATION == 2         \* '24h', in clock ticks of 12 hours
JWT_SECRET == "JWT_SECRET"

TxTypes == {"INCOME", "EXPENSE"}

\* bcrypt.hash / bcrypt.compare: a hash matches exactly the password it was made of
bcryptHash(password) == [alg |-> "bcrypt", rounds |-> 12, of |-> password]

\* faulty variant: the outcome of the comparison is inverted
bcryptCompareInverted(password, hash) == hash.of # password

bcryptCompare(password, hash) == hash.of = password

\* config/database.js: defaultCategories, in insertion order
defaultCategories == <<
    [name |-> "Salary",            description |-> "Monthly salary",                  type |-> "INCOME",  color |-> "#4CAF50"],
    [name |-> "Freelance",         description |-> "Freelance work income",           type |-> "INCOME",  color |-> "#8BC34A"],
    [name |-> "Investment",        description |-> "Investment returns",              type |-> "INCOME",  color |-> "#CDDC39"],
    [name |-> "Other Income",      description |-> "Other sources of income",         type |-> "INCOME",  color |-> "#FFC107"],
    [name |-> "Food & Dining",     description |-> "Food and restaurant expenses",    type |-> "EXPENSE", color |-> "#FF5722"],
    [name |-> "Transportation",    description |-> "Transport and fuel expenses",     type |-> "EXPENSE", color |-> "#FF9800"],
    [name |-> "Shopping",          description |-> "Shopping and retail expenses",    type |-> "EXPENSE", color |-> "#E91E63"],
    [name |-> "Entertainment",     description |-> "Entertainment and leisure",       type |-> "EXPENSE", color |-> "#9C27B0"],
    [name |-> "Bills & Utilities", description |-> "Monthly bills and utilities",     type |-> "EXPENSE", color |-> "#3F51B5"],
    [name |-> "Healthcare",        description |-> "Medical and healthcare expenses", type |-> "EXPENSE", color |-> "#2196F3"],
    [name |-> "Education",         description |-> "Education and learning expenses", type |-> "EXPENSE", color |-> "#00BCD4"],
    [name |-> "Other Expenses",    description |-> "Other miscellaneous expenses",    type |-> "EXPENSE", color |-> "#607D8B"] >>

\* the rows the seeding loop of initializeDatabase inserts into an empty table
SeedRows ==
    { [id |-> i,
       name |-> defaultCategories[i].name,
       description |-> defaultCategories[i].description,
       type |-> defaultCategories[i].type,
       color |-> defaultCategories[i].color,
       user_id |-> NULL,
       is_default |-> TRUE] : i \in 1..Len(defaultCategories) }

-----------------------------------------------------------------------------
(* Tokens and the Authorization header *)

\* jwt.sign of generateToken: the claims, the expiry and the signing key
generateToken(user, clock) ==
    [wellFormed |-> TRUE, key |-> JWT_SECRET, id |-> user.id,
     username |-> user.username, email |-> user.email,
     exp |-> clock + JWT_EXPIRATION]

\* a string that is no JWT at all
JunkToken ==
    [wellFormed |-> FALSE, key |-> "", id |-> 0, username |-> "", email |-> "", exp |-> 0]

\* the same claims signed with a key that is not the server's
Forged(t) == [t EXCEPT !.key = "attacker"]

\* The header is absent, or a string: its space-separated parts after the first
NoHeader == [present |-> FALSE, scheme |-> "", rest |-> <<>>]
Bearer(t) == [present |-> TRUE, scheme |-> "Bearer", rest |-> <<t>>]
BearerOnly == [present |-> TRUE, scheme |-> "Bearer", rest |-> <<>>]

\* authHeader && authHeader.split(' ')[1]
HasToken(hdr) == hdr.present /\ Len(hdr.rest) >= 1
HeaderToken(hdr) == hdr.rest[1]

\* faulty variant: a token is still good at its expiration time
jwtVerifyLate(token, clock) ==
    IF ~token.wellFormed \/ token.key # JWT_SECRET THEN "JsonWebTokenError"
    ELSE IF clock > token.exp THEN "TokenExpiredError"
    ELSE "ok"

\* jwt.verify(token, JWT_SECRET): "ok", or the name of the error it throws.
\* The signature is checked before the expiry.
jwtVerify(token, clock) ==
    IF ~token.wellFormed \/ token.key # JWT_SECRET THEN "JsonWebTokenError"
    ELSE IF clock >= token.exp THEN "TokenExpiredError"
    ELSE "ok"

-----------------------------------------------------------------------------
(* Dates: a DATE column and an ISO-8601 date string are <<year, month, day>> *)

YEAR(d) == d[1]
MONTH(d) == d[2]

DateLE(a, b) ==
    \/ a[1] < b[1]
    \/ a[1] = b[1] /\ a[2] < b[2]
    \/ a[1] = b[1] /\ a[2] = b[2] /\ a[3] <= b[3]

\* A numeric path parameter is a string: digits, then possibly ".5", then possibly
\* letters ("1", "13", "1.5", "1abc")
Digits(n) == [whole |-> n, half |-> FALSE, letters |-> FALSE]
WithFraction(n) == [whole |-> n, half |-> TRUE, letters |-> FALSE]
WithLetters(n) == [whole |-> n, half |-> FALSE, letters |-> TRUE]

\* JavaScript's string < number and string > number: the string is converted with
\* Number(), which is NaN when letters follow, and NaN compares false
jsLess(s, k) == ~s.letters /\ s.whole < k
jsGreater(s, k) == ~s.letters /\ (s.whole > k \/ (s.whole = k /\ s.half))

\* parseInt(s): the leading digits
parseInt(s) == s.whole

\* MySQL's integer = string: the string is converted to a double from its numeric
\* prefix, the letters dropped with a warning
sqlEquals(n, s) == ~s.half /\ s.whole = n

\* a DECIMAL(10,2) column rounds what it is given to cents (amounts sent are in
\* tenths of a cent, amounts stored in cents)
RoundToCents(a) == (a + 5) \div 10

\* validator's isISO8601 (not strict): the shape YYYY-MM-DD with month 01..12, day 01..31
isISO8601(d) == d[2] \in 1..12 /\ d[3] \in 1..31

-----------------------------------------------------------------------------
(* Request validation (express-validator chains) *)

\* colours the pattern /^#[0-9A-F]{6}$/i accepts, among the ones the model sends
HexColors == {"#FF6B6B", "#00ff00", "#123ABC"}

\* routes/transactions.js: transactionValidation.  isFloat({min: 0.01}) on an amount
\* in tenths of a cent.
transactionValidation(b) ==
    /\ b.amount >= 10
    /\ Len(b.description) >= 2 /\ Len(b.description) <= 255
    /\ isISO8601(b.transactionDate)
    /\ b.type \in TxTypes
    /\ b.categoryId >= 1
    /\ (b.notes # Absent => Len(b.notes) <= 500)

\* routes/categories.js: categoryValidation
categoryValidation(b) ==
    /\ Len(b.name) >= 2 /\ Len(b.name) <= 100
    /\ (b.description # Absent => Len(b.description) <= 255)
    /\ b.type \in TxTypes
    /\ (b.color # Absent => b.color \in HexColors)

\* x || null, x || fallback: undefined, null and '' are falsy
OrElse(x, fallback) == IF x \in {Absent, NullStr, ""} THEN fallback ELSE x

-----------------------------------------------------------------------------
(* The schema's constraints (config/database.js, CREATE TABLE statements) *)

\* faulty variant: the table is created without its foreign keys
NoForeignKeys(row, cats, usrs) == TRUE

\* transactions.category_id REFERENCES categories(id); transactions.user_id REFERENCES users(id)
TransactionForeignKeys(row, cats, usrs) ==
    /\ \E c \in cats : c.id = row.category_id
    /\ \E u \in usrs : u.id = row.user_id

\* categories.user_id REFERENCES users(id); NULL references nothing
CategoryForeignKeys(row, usrs) ==
    row.user_id = NULL \/ \E u \in usrs : u.id = row.user_id

\* FOREIGN KEY (category_id) REFERENCES categories(id) ON DELETE RESTRICT
DeleteRestricted(catId, txs) == \E t \in txs : t.category_id = catId

\* the columns' default collation compares strings without regard to case
Collate(s) == IF s = "Alice" THEN "alice" ELSE IF s = "Alice@X.io" THEN "alice@x.io" ELSE s

\* faulty variant: the columns are created without their UNIQUE keys
NoUniqueKeys(row, usrs) == TRUE

\* username UNIQUE, email UNIQUE
UserUnique(row, usrs) ==
    \A u \in usrs : /\ Collate(u.username) # Collate(row.username)
                    /\ Collate(u.email) # Collate(row.email)

-----------------------------------------------------------------------------
(* Queries *)

\* SELECT id, username, email, full_name FROM users WHERE id = ?
SelectUser(usrs, id) ==
    { [id |-> u.id, username |-> u.username, email |-> u.email, full_name |-> u.full_name] :
        u \in { v \in usrs : v.id = id } }

\* faulty variant: the category is looked up by id alone
SelectCategoryById(cats, catId, userId) == { c \in cats : c.id = catId }

\* faulty variant: the parentheses are missing: id = ? AND user_id = ? OR is_default = TRUE
SelectUnparenthesised(cats, catId, userId) ==
    { c \in cats : (c.id = catId /\ c.user_id = userId) \/ c.is_default }

\* SELECT * FROM categories WHERE id = ? AND (user_id = ? OR is_default = TRUE)
SelectVisibleCategory(cats, catId, userId) ==
    { c \in cats : c.id = catId /\ (c.user_id = userId \/ c.is_default) }

\* faulty variant: every category is listed
SelectAllCategories(cats, userId) == cats

\* SELECT * FROM categories WHERE user_id = ? OR is_default = TRUE
SelectUserCategories(cats, userId) ==
    { c \in cats : c.user_id = userId \/ c.is_default }

\* SELECT * FROM categories WHERE id = ?
SelectCategory(cats, catId) == { c \in cats : c.id = catId }

\* faulty variant: the transaction is looked up by id alone
SelectTransactionById(txs, id, userId) == { t \in txs : t.id = id }

\* SELECT * FROM transactions WHERE id = ? AND user_id = ?
SelectOwnTransaction(txs, id, userId) ==
    { t \in txs : t.id = id /\ t.user_id = userId }

\* SELECT ... FROM transactions t WHERE t.user_id = ?
SelectUserTransactions(txs, userId) == { t \in txs : t.user_id = userId }

\* formatTransactionResponse applied to a row of `t JOIN categories c ON t.category_id = c.id`
formatTransactionResponse(t, c) ==
    [id |-> t.id,
     amount |-> t.amount,
     description |-> t.description,
     transactionDate |-> t.transaction_date,
     type |-> t.type,
     notes |-> t.notes,
     createdAt |-> t.created_at,
     category |-> [id |-> t.category_id, name |-> c.name, type |-> c.type, color |-> c.color]]

\* the inner join of a set of transaction rows with categories, formatted
Joined(txs, cats) ==
    { formatTransactionResponse(p[1], p[2]) :
        p \in { q \in txs \X cats : q[1].category_id = q[2].id } }

\* ORDER BY t.transaction_date DESC, t.created_at DESC: rows that tie come in any order
Before(a, b) ==
    \/ ~DateLE(a.transactionDate, b.transactionDate)
    \/ a.transactionDate = b.transactionDate /\ a.createdAt > b.createdAt

Orderings(S) ==
    { s \in [1..Cardinality(S) -> S] :
        /\ \A i, j \in 1..Cardinality(S) : i # j => s[i] # s[j]
        /\ \A i, j \in 1..Cardinality(S) : i < j => ~Before(s[j], s[i]) }

\* COALESCE(SUM(amount), 0)
RECURSIVE SumAmount(_)
SumAmount(S) ==
    IF S = {} THEN 0
    ELSE LET t == CHOOSE x \in S : TRUE IN t.amount + SumAmount(S \ {t})

\* faulty variant: the sums are taken over every user's rows
SelectMonthAnyUser(txs, userId, type, year, month) ==
    { t \in txs : /\ t.type = type
                  /\ YEAR(t.transaction_date) = year
                  /\ sqlEquals(MONTH(t.transaction_date), month) }

\* WHERE user_id = ? AND type = ? AND YEAR(transaction_date) = ? AND MONTH(transaction_date) = ?
SelectMonth(txs, userId, type, year, month) ==
    { t \in txs : /\ t.user_id = userId /\ t.type = type
                  /\ YEAR(t.transaction_date) = year
                  /\ sqlEquals(MONTH(t.transaction_date), month) }

-----------------------------------------------------------------------------
(* Requests in flight *)

NoBody == [none |-> TRUE]
NoUser == [id |-> NULL, username |-> "", email |-> "", full_name |-> ""]

\* an empty slot
\* the browser tab before AuthProvider is mounted: useState(null), useState(true),
\* no token under localStorage 'token', no Authorization default header, no call
\* of the API under way.  A value that may be null is a sequence of length 0 or 1.
Unmounted ==
    [mounted |-> FALSE, user |-> <<>>, loading |-> TRUE, localStorage |-> <<>>,
     Authorization |-> NoHeader, validating |-> <<>>, logins |-> {}, calls |-> 0]

Idle == [pc |-> "idle", kind |-> "none", hdr |-> NoHeader, path |-> <<>>, body |-> NoBody,
         user |-> NoUser, loc |-> <<>>, conn |-> FALSE, nextCalls |-> 0,
         stmts |-> 0, wrote |-> FALSE]

NoResp == [req |-> Idle, status |-> 0, err |-> "", out |-> <<>>]

\* a request as it arrives: what the client sent
NewRequest(kind, hdr, path, body) ==
    [Idle EXCEPT !.pc = "arrived", !.kind = kind, !.hdr = hdr, !.path = path, !.body = body]

\* server.js: the routers and what is mounted in front of them
TransactionKinds ==
    {"txList", "txDateRange", "txByType", "txMonthly", "txSummary", "txSummaryYM",
     "txCreate", "txGet", "txUpdate", "txDelete"}
CategoryKinds == {"catList", "catByType", "catCreate", "catUpdate", "catDelete"}
AuthKinds == {"register", "login", "validate"}

\* faulty variant: the categories router is mounted without the gate
GatedTransactionsOnly(kind) == kind \in TransactionKinds

\* app.use(prefix, authenticateToken, router): the kinds behind the gate
Gated(kind) == kind \in TransactionKinds \cup CategoryKinds

\* pool.getConnection() of a request that holds no connection yet
CanAcquire(r) == req[r].conn \/ checkedOut < connectionLimit

\* the request goes on to its next await, as q
Goto(r, q) ==
    /\ req' = [req EXCEPT ![r] = q]
    /\ resp' = NoResp
    /\ checkedOut' = checkedOut + (IF q.conn /\ ~req[r].conn THEN 1 ELSE 0)
    /\ client' = client

\* the request, now q, sends its response; `finally` releases its connection
Reply(r, q, status, err, out) ==
    /\ req' = [req EXCEPT ![r] = Idle]
    /\ resp' = [req |-> q, status |-> status, err |-> err, out |-> out]
    /\ checkedOut' = checkedOut - (IF req[r].conn THEN 1 ELSE 0)
    /\ client' = client

\* one more statement executed by the handler of q
Stmt(q) == [q EXCEPT !.stmts = q.stmts + 1]
Write(q) == [q EXCEPT !.stmts = q.stmts + 1, !.wrote = TRUE]

At(r, kind, pc) == req[r].kind = kind /\ req[r].pc = pc

-----------------------------------------------------------------------------
(* middleware/auth.js: authenticateToken *)

\* faulty variant: the expiry of the token is not looked at
authenticateTokenCheckNoExpiry(hdr, clock) ==
    IF ~HasToken(hdr) THEN [status |-> 401, err |-> "Access token required"]
    ELSE IF jwtVerify(HeaderToken(hdr), clock) = "JsonWebTokenError"
         THEN [status |-> 403, err |-> "Invalid token"]
    ELSE [status |-> 0, err |-> ""]

\* lines 6-13 and the catch: the status the synchronous part answers, 0 to go on
authenticateTokenCheck(hdr, clock) ==
    IF ~HasToken(hdr) THEN [status |-> 401, err |-> "Access token required"]
    ELSE IF jwtVerify(HeaderToken(hdr), clock) = "JsonWebTokenError"
         THEN [status |-> 403, err |-> "Invalid token"]
    ELSE IF jwtVerify(HeaderToken(hdr), clock) = "TokenExpiredError"
         THEN [status |-> 403, err |-> "Token expired"]
    ELSE [status |-> 0, err |-> ""]

\* faulty variant: a token whose user is gone is answered like a bad token
authenticateTokenFoundForbidden(rows) ==
    IF rows = {} THEN [status |-> 403, err |-> "Invalid token", next |-> 0]
    ELSE [status |-> 0, err |-> "", next |-> 1]

\* lines 23-28: what the gate does with the rows of the user lookup
authenticateTokenFound(rows) ==
    IF rows = {} THEN [status |-> 401, err |-> "User not found", next |-> 0]
    ELSE [status |-> 0, err |-> "", next |-> 1]

\* A request arrives in slot r.  Behind the gate, authenticateToken runs up to its
\* first await; the other routes go straight to their handler.
Arrive(r, q) ==
    /\ req[r].pc = "idle"
    /\ \A s \in AllSlots : s < r => req[s].pc # "idle"     \* slots are taken in order
    /\ UNCHANGED <<tables, nextUserId, nextCatId, nextTxId, tokens, now>>
    /\ IF Gated(q.kind)
       THEN LET v == authenticateTokenCheck(q.hdr, now) IN
            IF v.status # 0
            THEN Reply(r, q, v.status, v.err, <<>>)
            ELSE Goto(r, [q EXCEPT !.pc = "gate"])
       ELSE Goto(r, [q EXCEPT !.pc = "h1"])

\* authenticateToken, lines 16-28: the user lookup, release, and next()
GateLookup(r) ==
    /\ req[r].pc = "gate"
    /\ CanAcquire(r)
    /\ UNCHANGED <<tables, nextUserId, nextCatId, nextTxId, tokens, now>>
    /\ LET q == req[r]
           rows == SelectUser(users, HeaderToken(q.hdr).id)
           v == authenticateTokenFound(rows)
       IN IF v.status # 0
          THEN Reply(r, q, v.status, v.err, <<>>)
          ELSE Goto(r, [q EXCEPT !.pc = "h1",
                                 !.user = CHOOSE u \in rows : TRUE,
                                 !.nextCalls = q.nextCalls + v.next])

-----------------------------------------------------------------------------
(* routes/categories.js *)

Frame == UNCHANGED <<nextUserId, tokens, now>>

\* GET /: the rows, as a set (ORDER BY name is not modelled)
CatList(r) ==
    /\ At(r, "catList", "h1")
    /\ CanAcquire(r)
    /\ Frame /\ UNCHANGED <<tables, nextCatId, nextTxId>>
    /\ Reply(r, Stmt(req[r]), 200, "", SelectUserCategories(categories, req[r].user.id))

\* GET /type/:type
CatByType(r) ==
    /\ At(r, "catByType", "h1")
    /\ Frame /\ UNCHANGED <<tables, nextCatId, nextTxId>>
    /\ LET q == req[r] IN
       IF q.path[1] \notin TxTypes
       THEN Reply(r, q, 400, "Invalid category type", <<>>)
       ELSE /\ CanAcquire(r)
            /\ Reply(r, Stmt(q), 200, "",
                     { c \in SelectUserCategories(categories, q.user.id) : c.type = q.path[1] })

\* the row POST / inserts
\* faulty variant: the default flag is taken from the body when the body has one
NewCategoryRowFlagFromBody(id, b, userId) ==
    [id |-> id, name |-> b.name, description |-> OrElse(b.description, NullStr),
     type |-> b.type, color |-> OrElse(b.color, "#FF6B6B"),
     user_id |-> userId,
     is_default |-> IF "isDefault" \in DOMAIN b THEN b.isDefault ELSE FALSE]

NewCategoryRow(id, b, userId) ==
    [id |-> id, name |-> b.name, description |-> OrElse(b.description, NullStr),
     type |-> b.type, color |-> OrElse(b.color, "#FF6B6B"),
     user_id |-> userId, is_default |-> FALSE]

\* POST /: validation, then INSERT
CatCreateInsert(r) ==
    /\ At(r, "catCreate", "h1")
    /\ Frame /\ UNCHANGED <<users, transactions, nextTxId>>
    /\ LET q == req[r]
           row == NewCategoryRow(nextCatId, q.body, q.user.id)
       IN IF ~categoryValidation(q.body)
          THEN /\ Reply(r, q, 400, "Validation failed", <<>>)
               /\ UNCHANGED <<categories, nextCatId>>
          ELSE /\ CanAcquire(r)
               /\ nextCatId <= Len(defaultCategories) + MaxNewCats
               /\ IF CategoryForeignKeys(row, users)
                  THEN /\ categories' = categories \cup {row}
                       /\ nextCatId' = nextCatId + 1
                       /\ Goto(r, [Write(q) EXCEPT !.pc = "h2", !.conn = TRUE, !.loc = row.id])
                  ELSE /\ UNCHANGED <<categories, nextCatId>>
                       /\ Reply(r, Stmt(q), 500, "ER_NO_REFERENCED_ROW", <<>>)

\* POST /: SELECT the created row and answer categories[0]
CatCreateReread(r) ==
    /\ At(r, "catCreate", "h2")
    /\ Frame /\ UNCHANGED <<tables, nextCatId, nextTxId>>
    /\ Reply(r, Stmt(req[r]), 201, "", SelectCategory(categories, req[r].loc))

\* faulty variant: only the existence of the category is checked
categoryAccessExistsOnly(rows, userId, verb) ==
    IF rows = {} THEN [status |-> 404, err |-> "Category not found"]
    ELSE [status |-> 0, err |-> ""]

\* lines 575-584 and 621-630: the verdict on the rows of SELECT * FROM categories WHERE id = ?
categoryAccess(rows, userId, verb) ==
    IF rows = {} THEN [status |-> 404, err |-> "Category not found"]
    ELSE LET category == CHOOSE c \in rows : TRUE IN
         IF category.is_default \/ category.user_id # userId
         THEN [status |-> 403, err |-> "Cannot " \o verb \o " this category"]
         ELSE [status |-> 0, err |-> ""]

\* PUT /:id: validation, then the existence and ownership check
CatUpdateSelect(r) ==
    /\ At(r, "catUpdate", "h1")
    /\ Frame /\ UNCHANGED <<tables, nextCatId, nextTxId>>
    /\ LET q == req[r]
           rows == SelectCategory(categories, q.path[1])
           v == categoryAccess(rows, q.user.id, "modify")
       IN IF ~categoryValidation(q.body)
          THEN Reply(r, q, 400, "Validation failed", <<>>)
          ELSE /\ CanAcquire(r)
               /\ IF v.status # 0
                  THEN Reply(r, Stmt(q), v.status, v.err, <<>>)
                  ELSE Goto(r, [Stmt(q) EXCEPT !.pc = "h2", !.conn = TRUE,
                                               !.loc = CHOOSE c \in rows : TRUE])

\* faulty variant: a body without a colour resets the colour to the default one
UpdatedCategoryRowDefaultColor(c, b, category) ==
    [c EXCEPT !.name = b.name,
              !.description = OrElse(b.description, NullStr),
              !.color = OrElse(b.color, "#FF6B6B"),
              !.type = b.type]

\* the row UPDATE categories SET name, description, color, type WHERE id = ? leaves
\* faulty variant: the owner is taken from the body when the body names one
UpdatedCategoryRowTakingOwner(c, b, category) ==
    [c EXCEPT !.name = b.name,
              !.description = OrElse(b.description, NullStr),
              !.color = OrElse(b.color, category.color),
              !.type = b.type,
              !.user_id = IF "userId" \in DOMAIN b THEN b.userId ELSE c.user_id]

UpdatedCategoryRow(c, b, category) ==
    [c EXCEPT !.name = b.name,
              !.description = OrElse(b.description, NullStr),
              !.color = OrElse(b.color, category.color),
              !.type = b.type]

\* PUT /:id: UPDATE
CatUpdateWrite(r) ==
    /\ At(r, "catUpdate", "h2")
    /\ Frame /\ UNCHANGED <<users, transactions, nextCatId, nextTxId>>
    /\ LET q == req[r] IN
       /\ categories' = { IF c.id = q.path[1] THEN UpdatedCategoryRow(c, q.body, q.loc) ELSE c :
                            c \in categories }
       /\ Goto(r, [(IF SelectCategory(categories, q.path[1]) # {} THEN Write(q) ELSE Stmt(q))
                     EXCEPT !.pc = "h3"])

\* PUT /:id: SELECT the updated row and answer updatedCategories[0]
CatUpdateReread(r) ==
    /\ At(r, "catUpdate", "h3")
    /\ Frame /\ UNCHANGED <<tables, nextCatId, nextTxId>>
    /\ Reply(r, Stmt(req[r]), 200, "", SelectCategory(categories, req[r].path[1]))

\* DELETE /:id: the existence and ownership check
CatDeleteSelect(r) ==
    /\ At(r, "catDelete", "h1")
    /\ CanAcquire(r)
    /\ Frame /\ UNCHANGED <<tables, nextCatId, nextTxId>>
    /\ LET q == req[r]
           v == categoryAccess(SelectCategory(categories, q.path[1]), q.user.id, "delete")
       IN IF v.status # 0
          THEN Reply(r, Stmt(q), v.status, v.err, <<>>)
          ELSE Goto(r, [Stmt(q) EXCEPT !.pc = "h2", !.conn = TRUE])

\* faulty variant: the references are not counted
CountNothing(txs, catId) == 0

\* SELECT COUNT(*) as count FROM transactions WHERE category_id = ?
CountReferences(txs, catId) == Cardinality({ t \in txs : t.category_id = catId })

\* DELETE /:id: the reference count
CatDeleteCount(r) ==
    /\ At(r, "catDelete", "h2")
    /\ Frame /\ UNCHANGED <<tables, nextCatId, nextTxId>>
    /\ LET q == req[r] IN
       IF CountReferences(transactions, q.path[1]) > 0
       THEN Reply(r, Stmt(q), 400, "Cannot delete category that is being used in transactions", <<>>)
       ELSE Goto(r, [Stmt(q) EXCEPT !.pc = "h3"])

\* DELETE /:id: DELETE FROM categories WHERE id = ?, refused by ON DELETE RESTRICT
CatDeleteWrite(r) ==
    /\ At(r, "catDelete", "h3")
    /\ Frame /\ UNCHANGED <<users, transactions, nextCatId, nextTxId>>
    /\ LET q == req[r] IN
       IF DeleteRestricted(q.path[1], transactions)
       THEN /\ UNCHANGED categories
            /\ Reply(r, Stmt(q), 500, "ER_ROW_IS_REFERENCED", <<>>)
       ELSE /\ categories' = { c \in categories : c.id # q.path[1] }
            /\ Reply(r, (IF SelectCategory(categories, q.path[1]) # {} THEN Write(q) ELSE Stmt(q)),
                     200, "Category deleted successfully", <<>>)

-----------------------------------------------------------------------------
(* routes/transactions.js *)

ReadOnly == UNCHANGED <<tables, nextUserId, nextCatId, nextTxId, tokens, now>>

\* a list response: the joined rows in one of the orders ORDER BY allows
ReplyList(r, q, rows) ==
    \E out \in Orderings(Joined(rows, categories)) : Reply(r, Stmt(q), 200, "", out)

\* LIMIT size OFFSET offset
Page(s, size, offset) ==
    SubSeq(s, offset + 1, IF offset + size < Len(s) THEN offset + size ELSE Len(s))

\* GET /?page=&size=   (path = <<page, size>>, 0 when the parameter is missing)
TxList(r) ==
    /\ At(r, "txList", "h1")
    /\ CanAcquire(r)
    /\ ReadOnly
    /\ LET q == req[r]
           page == q.path[1]
           size == q.path[2]
       IN \E all \in Orderings(Joined(SelectUserTransactions(transactions, q.user.id), categories)) :
            Reply(r, Stmt(q), 200, "",
                  IF page # 0 /\ size # 0 THEN Page(all, size, (page - 1) * size) ELSE all)

\* GET /date-range?startDate=&endDate=   (path = <<startDate, endDate>>)
TxDateRange(r) ==
    /\ At(r, "txDateRange", "h1")
    /\ ReadOnly
    /\ LET q == req[r] IN
       IF ~(isISO8601(q.path[1]) /\ isISO8601(q.path[2]))
       THEN Reply(r, q, 400, "Validation failed", <<>>)
       ELSE /\ CanAcquire(r)
            /\ ReplyList(r, q, { t \in SelectUserTransactions(transactions, q.user.id) :
                                   DateLE(q.path[1], t.transaction_date)
                                   /\ DateLE(t.transaction_date, q.path[2]) })

\* GET /type/:type
TxByType(r) ==
    /\ At(r, "txByType", "h1")
    /\ ReadOnly
    /\ LET q == req[r] IN
       IF q.path[1] \notin TxTypes
       THEN Reply(r, q, 400, "Invalid transaction type", <<>>)
       ELSE /\ CanAcquire(r)
            /\ ReplyList(r, q, { t \in SelectUserTransactions(transactions, q.user.id) :
                                   t.type = q.path[1] })

\* if (!year || !month || month < 1 || month > 12)   (path = <<year, month>>)
InvalidYearMonth(year, month) == jsLess(month, 1) \/ jsGreater(month, 12)

\* GET /monthly/:year/:month
TxMonthly(r) ==
    /\ At(r, "txMonthly", "h1")
    /\ ReadOnly
    /\ LET q == req[r] IN
       IF InvalidYearMonth(q.path[1], q.path[2])
       THEN Reply(r, q, 400, "Invalid year or month", <<>>)
       ELSE /\ CanAcquire(r)
            /\ ReplyList(r, q, { t \in SelectUserTransactions(transactions, q.user.id) :
                                   /\ YEAR(t.transaction_date) = q.path[1]
                                   /\ sqlEquals(MONTH(t.transaction_date), q.path[2]) })

\* GET /summary/:year/:month: the income sum
TxSummaryIncome(r) ==
    /\ At(r, "txSummaryYM", "h1")
    /\ ReadOnly
    /\ LET q == req[r] IN
       IF InvalidYearMonth(q.path[1], q.path[2])
       THEN Reply(r, q, 400, "Invalid year or month", <<>>)
       ELSE /\ CanAcquire(r)
            /\ Goto(r, [Stmt(q) EXCEPT !.pc = "h2", !.conn = TRUE,
                          !.loc = SumAmount(SelectMonth(transactions, q.user.id, "INCOME",
                                                        q.path[1], q.path[2]))])

\* GET /summary/:year/:month: the expense sum, and the answer
TxSummaryExpense(r) ==
    /\ At(r, "txSummaryYM", "h2")
    /\ ReadOnly
    /\ LET q == req[r]
           income == q.loc
           expense == SumAmount(SelectMonth(transactions, q.user.id, "EXPENSE",
                                            q.path[1], q.path[2]))
       IN Reply(r, Stmt(q), 200, "",
                [income |-> income, expense |-> expense, balance |-> income - expense,
                 year |-> q.path[1], month |-> parseInt(q.path[2])])

\* the row POST / inserts
NewTransactionRow(id, b, userId, clock) ==
    [id |-> id, amount |-> RoundToCents(b.amount), description |-> b.description,
     transaction_date |-> b.transactionDate, type |-> b.type,
     category_id |-> b.categoryId, user_id |-> userId,
     notes |-> OrElse(b.notes, NullStr), created_at |-> clock]

\* POST /: validation, then the category visibility check
TxCreateCheck(r) ==
    /\ At(r, "txCreate", "h1")
    /\ ReadOnly
    /\ LET q == req[r] IN
       IF ~transactionValidation(q.body)
       THEN Reply(r, q, 400, "Validation failed", <<>>)
       ELSE /\ CanAcquire(r)
            /\ IF SelectVisibleCategory(categories, q.body.categoryId, q.user.id) = {}
               THEN Reply(r, Stmt(q), 400, "Invalid category", <<>>)
               ELSE Goto(r, [Stmt(q) EXCEPT !.pc = "h2", !.conn = TRUE])

\* POST /: INSERT, refused by the foreign keys
TxCreateInsert(r) ==
    /\ At(r, "txCreate", "h2")
    /\ nextTxId <= MaxNewTxs
    /\ Frame /\ UNCHANGED <<users, categories, nextCatId>>
    /\ LET q == req[r]
           row == NewTransactionRow(nextTxId, q.body, q.user.id, now)
       IN IF TransactionForeignKeys(row, categories, users)
          THEN /\ transactions' = transactions \cup {row}
               /\ nextTxId' = nextTxId + 1
               /\ Goto(r, [Write(q) EXCEPT !.pc = "h3", !.loc = row.id])
          ELSE /\ UNCHANGED <<transactions, nextTxId>>
               /\ Reply(r, Stmt(q), 500, "ER_NO_REFERENCED_ROW", <<>>)

\* faulty variant: a row that is gone when it is read back is answered 404
ReplyRowNotFound(r, q, rows, status) ==
    IF rows = {}
    THEN Reply(r, Stmt(q), 404, "Transaction not found", <<>>)
    ELSE Reply(r, Stmt(q), status, "", CHOOSE x \in rows : TRUE)

\* formatTransactionResponse(transactions[0]): a TypeError when the row is gone
ReplyRow(r, q, rows, status) ==
    IF rows = {}
    THEN Reply(r, Stmt(q), 500, "TypeError", <<>>)
    ELSE Reply(r, Stmt(q), status, "", CHOOSE x \in rows : TRUE)

\* POST /: SELECT the created row joined with its category
TxCreateReread(r) ==
    /\ At(r, "txCreate", "h3")
    /\ ReadOnly
    /\ LET q == req[r] IN
       ReplyRow(r, q, Joined({ t \in transactions : t.id = q.loc }, categories), 201)

\* GET /:id
TxGet(r) ==
    /\ At(r, "txGet", "h1")
    /\ CanAcquire(r)
    /\ ReadOnly
    /\ LET q == req[r]
           rows == Joined(SelectOwnTransaction(transactions, q.path[1], q.user.id), categories)
       IN IF rows = {}
          THEN Reply(r, Stmt(q), 404, "Transaction not found", <<>>)
          ELSE Reply(r, Stmt(q), 200, "", CHOOSE x \in rows : TRUE)

\* PUT /:id: validation, then the existence and ownership check
TxUpdateSelect(r) ==
    /\ At(r, "txUpdate", "h1")
    /\ ReadOnly
    /\ LET q == req[r] IN
       IF ~transactionValidation(q.body)
       THEN Reply(r, q, 400, "Validation failed", <<>>)
       ELSE /\ CanAcquire(r)
            /\ IF SelectOwnTransaction(transactions, q.path[1], q.user.id) = {}
               THEN Reply(r, Stmt(q), 404, "Transaction not found", <<>>)
               ELSE Goto(r, [Stmt(q) EXCEPT !.pc = "h2", !.conn = TRUE])

\* PUT /:id: the category visibility check
TxUpdateCheck(r) ==
    /\ At(r, "txUpdate", "h2")
    /\ ReadOnly
    /\ LET q == req[r] IN
       IF SelectVisibleCategory(categories, q.body.categoryId, q.user.id) = {}
       THEN Reply(r, Stmt(q), 400, "Invalid category", <<>>)
       ELSE Goto(r, [Stmt(q) EXCEPT !.pc = "h3"])

\* faulty variant: notes that are not sent are left as they are
UpdatedTransactionRowKeepingNotes(t, b) ==
    [t EXCEPT !.amount = RoundToCents(b.amount), !.description = b.description,
              !.transaction_date = b.transactionDate, !.type = b.type,
              !.category_id = b.categoryId, !.notes = OrElse(b.notes, t.notes)]

\* the row UPDATE transactions SET ... WHERE id = ? AND user_id = ? leaves
UpdatedTransactionRow(t, b) ==
    [t EXCEPT !.amount = RoundToCents(b.amount), !.description = b.description,
              !.transaction_date = b.transactionDate, !.type = b.type,
              !.category_id = b.categoryId, !.notes = OrElse(b.notes, NullStr)]

\* PUT /:id: UPDATE, refused by the foreign key when it would leave a dangling category
TxUpdateWrite(r) ==
    /\ At(r, "txUpdate", "h3")
    /\ Frame /\ UNCHANGED <<users, categories, nextCatId, nextTxId>>
    /\ LET q == req[r]
           hit == SelectOwnTransaction(transactions, q.path[1], q.user.id)
           new == { UpdatedTransactionRow(t, q.body) : t \in hit }
       IN IF \A t \in new : TransactionForeignKeys(t, categories, users)
          THEN /\ transactions' = (transactions \ hit) \cup new
               /\ Goto(r, [(IF hit # {} THEN Write(q) ELSE Stmt(q)) EXCEPT !.pc = "h4"])
          ELSE /\ UNCHANGED transactions
               /\ Reply(r, Stmt(q), 500, "ER_NO_REFERENCED_ROW", <<>>)

\* PUT /:id: SELECT the updated row (WHERE t.id = ?) joined with its category
TxUpdateReread(r) ==
    /\ At(r, "txUpdate", "h4")
    /\ ReadOnly
    /\ LET q == req[r] IN
       ReplyRow(r, q, Joined({ t \in transactions : t.id = q.path[1] }, categories), 200)

\* DELETE /:id: DELETE FROM transactions WHERE id = ? AND user_id = ?
TxDelete(r) ==
    /\ At(r, "txDelete", "h1")
    /\ CanAcquire(r)
    /\ Frame /\ UNCHANGED <<users, categories, nextCatId, nextTxId>>
    /\ LET q == req[r]
           hit == SelectOwnTransaction(transactions, q.path[1], q.user.id)
       IN /\ transactions' = transactions \ hit
          /\ IF hit = {}
             THEN Reply(r, Stmt(q), 404, "Transaction not found", <<>>)
             ELSE Reply(r, Write(q), 200, "Transaction deleted successfully", <<>>)

\* new Date(): the calendar month of the server clock (tick 0 is 2024-01-31 00:00)
CurrentYearMonth(clock) == IF clock < 2 THEN <<2024, 1>> ELSE <<2024, 2>>

\* GET /summary: the income sum of the current month
TxSummaryNowIncome(r) ==
    /\ At(r, "txSummary", "h1")
    /\ CanAcquire(r)
    /\ ReadOnly
    /\ LET q == req[r]
           ym == CurrentYearMonth(now)
       IN Goto(r, [Stmt(q) EXCEPT !.pc = "h2", !.conn = TRUE, !.path = ym,
                     !.loc = SumAmount(SelectMonth(transactions, q.user.id, "INCOME",
                                                   ym[1], Digits(ym[2])))])

\* GET /summary: the expense sum, and the answer
TxSummaryNowExpense(r) ==
    /\ At(r, "txSummary", "h2")
    /\ ReadOnly
    /\ LET q == req[r]
           income == q.loc
           expense == SumAmount(SelectMonth(transactions, q.user.id, "EXPENSE",
                                            q.path[1], Digits(q.path[2])))
       IN Reply(r, Stmt(q), 200, "",
                [income |-> income, expense |-> expense, balance |-> income - expense,
                 year |-> q.path[1], month |-> q.path[2]])

-----------------------------------------------------------------------------
(* routes/auth.js and the health check *)

\* names /^[a-zA-Z0-9_]+$/ accepts and addresses isEmail accepts, among the ones sent
WordNames == {"alice", "bob", "Alice"}
EmailAddresses == {"alice@x.io", "bob@x.io", "Alice@X.io"}

\* normalizeEmail: lower-cases the address
normalizeEmail(e) == IF e = "Alice@X.io" THEN "alice@x.io" ELSE e

registerValidation(b) ==
    /\ Len(b.username) >= 3 /\ Len(b.username) <= 50
    /\ b.username \in WordNames
    /\ b.email \in EmailAddresses
    /\ Len(b.password) >= 6
    /\ Len(b.fullName) >= 1 /\ Len(b.fullName) <= 255

loginValidation(b) == Len(b.username) >= 1 /\ Len(b.password) >= 1

\* SELECT id FROM users WHERE username = ? OR email = ?
SelectExistingUsers(usrs, username, email) ==
    { u \in usrs : Collate(u.username) = Collate(username) \/ Collate(u.email) = Collate(email) }

\* POST /register: validation, then the lookup of existing users
RegisterSelect(r) ==
    /\ At(r, "register", "h1")
    /\ ReadOnly
    /\ LET q == req[r]
           b == [q.body EXCEPT !.email = normalizeEmail(q.body.email)]
       IN IF ~registerValidation(q.body)
          THEN Reply(r, q, 400, "Validation failed", <<>>)
          ELSE /\ CanAcquire(r)
               /\ IF SelectExistingUsers(users, b.username, b.email) # {}
                  THEN Reply(r, Stmt(q), 400, "Username or email already exists", <<>>)
                  ELSE Goto(r, [Stmt(q) EXCEPT !.pc = "h2", !.conn = TRUE, !.body = b])

\* POST /register: after bcrypt.hash, INSERT INTO users (refused by the UNIQUE keys)
RegisterInsert(r) ==
    /\ At(r, "register", "h2")
    /\ UNCHANGED <<categories, transactions, nextCatId, nextTxId, tokens, now>>
    /\ LET q == req[r]
           row == [id |-> nextUserId, username |-> q.body.username, email |-> q.body.email,
                   password |-> bcryptHash(q.body.password), full_name |-> q.body.fullName]
       IN IF UserUnique(row, users)
          THEN /\ nextUserId <= MaxUsers
               /\ users' = users \cup {row}
               /\ nextUserId' = nextUserId + 1
               /\ Reply(r, Write(q), 201, "", "User registered successfully!")
          ELSE /\ UNCHANGED <<users, nextUserId>>
               /\ Reply(r, Stmt(q), 500, "Internal server error", <<>>)

\* faulty variant: an unknown username is told apart
unknownUserNamed == [status |-> 404, err |-> "User not found"]

\* POST /login, lines 110-112 and 117-119: the two refusals
unknownUserResponse == [status |-> 401, err |-> "Invalid username or password!"]
wrongPasswordResponse == [status |-> 401, err |-> "Invalid username or password!"]

\* POST /login: validation, the user lookup, bcrypt.compare and the token
Login(r) ==
    /\ At(r, "login", "h1")
    /\ UNCHANGED <<tables, nextUserId, nextCatId, nextTxId, now>>
    /\ LET q == req[r]
           rows == { u \in users : Collate(u.username) = Collate(q.body.username) }
           user == CHOOSE u \in rows : TRUE
       IN IF ~loginValidation(q.body)
          THEN Reply(r, q, 400, "Validation failed", <<>>) /\ UNCHANGED tokens
          ELSE /\ CanAcquire(r)
               /\ IF rows = {}
                  THEN /\ Reply(r, Stmt(q), unknownUserResponse.status,
                                unknownUserResponse.err, <<>>)
                       /\ UNCHANGED tokens
                  ELSE IF ~bcryptCompare(q.body.password, user.password)
                  THEN /\ Reply(r, Stmt(q), wrongPasswordResponse.status,
                                wrongPasswordResponse.err, <<>>)
                       /\ UNCHANGED tokens
                  ELSE /\ generateToken(user, now) \in tokens \/ Cardinality(tokens) < MaxTokens
                       /\ tokens' = tokens \cup {generateToken(user, now)}
                       /\ Reply(r, Stmt(q), 200, "",
                                [token |-> generateToken(user, now), username |-> user.username,
                                 email |-> user.email, fullName |-> user.full_name])

\* GET /validate
Validate(r) ==
    /\ At(r, "validate", "h1")
    /\ ReadOnly
    /\ LET q == req[r] IN
       IF ~HasToken(q.hdr)
       THEN Reply(r, q, 401, "Access token required", <<>>)
       ELSE IF jwtVerify(HeaderToken(q.hdr), now) # "ok"
       THEN Reply(r, q, 403, "Invalid token", <<>>)
       ELSE /\ CanAcquire(r)
            /\ LET rows == SelectUser(users, HeaderToken(q.hdr).id) IN
               IF rows = {}
               THEN Reply(r, Stmt(q), 401, "User not found", <<>>)
               ELSE LET user == CHOOSE u \in rows : TRUE IN
                    Reply(r, Stmt(q), 200, "",
                          [token |-> HeaderToken(q.hdr), username |-> user.username,
                           email |-> user.email, fullName |-> user.full_name])

\* GET /api/health
Health(r) ==
    /\ At(r, "health", "h1")
    /\ ReadOnly
    /\ Reply(r, req[r], 200, "", [status |-> "OK", timestamp |-> now])

-----------------------------------------------------------------------------
(* The environment *)

\* the clock advances
Tick ==
    /\ now < MaxClock
    /\ now' = now + 1
    /\ resp' = NoResp
    /\ UNCHANGED <<tables, nextUserId, nextCatId, nextTxId, tokens, checkedOut, req, client>>

\* An administrator deletes a user row: ON DELETE CASCADE removes the user's
\* categories and transactions, ON DELETE RESTRICT refuses while a remaining
\* transaction references one of those categories.
AdminDeleteUser(id) ==
    /\ \E u \in users : u.id = id
    /\ LET cats == { c \in categories : c.user_id # id }
           txs == { t \in transactions : t.user_id # id }
       IN /\ \A t \in txs : \E c \in cats : c.id = t.category_id
          /\ users' = { u \in users : u.id # id }
          /\ categories' = cats
          /\ transactions' = txs
    /\ resp' = NoResp
    /\ UNCHANGED <<nextUserId, nextCatId, nextTxId, tokens, now, checkedOut, req, client>>

\* A statement fails for a reason outside the program (the server went away, a
\* lock wait timed out): connection.execute throws.  A handler answers 500 and
\* its `finally` releases the connection; authenticateToken answers 500 from its
\* catch, and its connection.release() (line 21) is skipped.
\* the pending step of q does reach a connection.execute
ExecutesStatement(q) ==
    \/ q.pc \in {"gate", "h2", "h3", "h4"}
    \/ /\ q.pc = "h1"
       /\ CASE q.kind \in {"catCreate", "catUpdate"} -> categoryValidation(q.body)
            [] q.kind \in {"txCreate", "txUpdate"} -> transactionValidation(q.body)
            [] q.kind \in {"catByType", "txByType"} -> q.path[1] \in TxTypes
            [] q.kind = "txDateRange" -> isISO8601(q.path[1]) /\ isISO8601(q.path[2])
            [] q.kind \in {"txMonthly", "txSummaryYM"} -> ~InvalidYearMonth(q.path[1], q.path[2])
            [] q.kind = "register" -> registerValidation(q.body)
            [] q.kind = "login" -> loginValidation(q.body)
            [] q.kind = "validate" -> HasToken(q.hdr) /\ jwtVerify(HeaderToken(q.hdr), now) = "ok"
            [] q.kind = "health" -> FALSE
            [] OTHER -> TRUE

StmtThrows(r) ==
    /\ ExecutesStatement(req[r])
    /\ CanAcquire(r)
    /\ UNCHANGED <<tables, nextUserId, nextCatId, nextTxId, tokens, now>>
    /\ req' = [req EXCEPT ![r] = Idle]
    /\ resp' = [req |-> req[r], status |-> 500, err |-> "Internal server error", out |-> <<>>]
    /\ checkedOut' = IF req[r].pc = "gate" THEN checkedOut + 1
                     ELSE checkedOut - (IF req[r].conn THEN 1 ELSE 0)
    /\ client' = client

-----------------------------------------------------------------------------
(* Initial states *)

\* the state initializeDatabase leaves on an empty database
InitFresh ==
    /\ users = {}
    /\ categories = SeedRows
    /\ transactions = {}
    /\ nextUserId = 1
    /\ nextCatId = Len(defaultCategories) + 1
    /\ nextTxId = 1
    /\ tokens = {}
    /\ now = 0
    /\ checkedOut = 0
    /\ req = [r \in AllSlots |-> Idle]
    /\ resp = NoResp
    /\ client = Unmounted

AliceBody == [username |-> "alice", email |-> "alice@x.io", password |-> "alicepw", fullName |-> "Alice A"]
BobBody == [username |-> "bob", email |-> "bob@x.io", password |-> "bobspw", fullName |-> "Bob B"]

UserRowOf(id, b) ==
    [id |-> id, username |-> b.username, email |-> normalizeEmail(b.email),
     password |-> bcryptHash(b.password), full_name |-> b.fullName]

Alice == UserRowOf(1, AliceBody)
Bob == UserRowOf(2, BobBody)
TokenA == generateToken(Alice, 0)
TokenB == generateToken(Bob, 0)

\* alice and bob have registered and logged in, in that order, at time 0
InitRegistered ==
    /\ users = {Alice, Bob}
    /\ categories = SeedRows
    /\ transactions = {}
    /\ nextUserId = 3
    /\ nextCatId = Len(defaultCategories) + 1
    /\ nextTxId = 1
    /\ tokens = {TokenA, TokenB}
    /\ now = 0
    /\ checkedOut = 0
    /\ req = [r \in AllSlots |-> Idle]
    /\ resp = NoResp
    /\ client = Unmounted

-----------------------------------------------------------------------------
(* The requests the clients send *)

FirstNewCat == Len(defaultCategories) + 1
Jan15 == <<2024, 1, 15>>
Feb03 == <<2024, 2, 3>>

CatBody(name, color) == [name |-> name, description |-> Absent, color |-> color, type |-> "EXPENSE"]
TxBody(amount, date, type, categoryId) ==
    [amount |-> amount, description |-> "rent", transactionDate |-> date, type |-> type,
     categoryId |-> categoryId, notes |-> Absent]

\* category ids a client names: a default one, a user-created one, one that never exists.
\* The two users are interchangeable, so categories are created by alice only and
\* bob is the other user; updates name the first transaction, whoever owns it.
SomeCatIds == {1, FirstNewCat, 99}
SomeTxIds == {1, 2}

CategoryRequests(hdrs) ==
    { NewRequest(k, h, <<>>, NoBody) : k \in {"catList"}, h \in hdrs }
    \cup { NewRequest("catByType", h, <<t>>, NoBody) : h \in hdrs, t \in {"INCOME", "BOGUS"} }
    \cup { NewRequest("catCreate", Bearer(TokenA), <<>>, b) :
             b \in {CatBody("Rent", Absent), CatBody("R", Absent)} }
    \cup { NewRequest("catUpdate", h, <<id>>, b) :
             h \in hdrs, id \in SomeCatIds,
             b \in {CatBody("Gym", "#00ff00"), CatBody("G", Absent)} }
    \cup { NewRequest("catDelete", h, <<id>>, NoBody) : h \in hdrs, id \in SomeCatIds }

TransactionReads(hdrs) ==
    { NewRequest("txList", h, p, NoBody) : h \in hdrs, p \in {<<0, 0>>, <<1, 1>>} }
    \cup { NewRequest("txDateRange", h, <<Jan15, Feb03>>, NoBody) : h \in hdrs }
    \cup { NewRequest("txByType", h, <<t>>, NoBody) : h \in hdrs, t \in {"EXPENSE", "BOGUS"} }
    \cup { NewRequest(k, h, <<2024, m>>, NoBody) :
             k \in {"txMonthly", "txSummaryYM"}, h \in hdrs, m \in {Digits(1), Digits(13)} }
    \cup { NewRequest("txSummary", h, <<>>, NoBody) : h \in hdrs }
    \cup { NewRequest("txGet", h, <<id>>, NoBody) : h \in hdrs, id \in SomeTxIds }

TransactionWrites(hdrs) ==
    { NewRequest("txCreate", h, <<>>, b) :
        h \in hdrs,
        b \in { TxBody(100, Jan15, "EXPENSE", c) : c \in SomeCatIds \cup {0} }
              \cup { TxBody(0, Jan15, "EXPENSE", 1) } }
    \cup { NewRequest("txUpdate", h, <<id>>, b) :
             h \in hdrs, id \in {1},
             b \in { TxBody(250, Jan15, "INCOME", c) : c \in SomeCatIds }
                   \cup { TxBody(0, Jan15, "EXPENSE", FirstNewCat) } }
    \cup { NewRequest("txDelete", h, <<id>>, NoBody) : h \in hdrs, id \in SomeTxIds }

AuthRequests(hdrs) ==
    { NewRequest("register", h, <<>>, b) : h \in hdrs, b \in {AliceBody, BobBody} }
    \cup { NewRequest("login", h, <<>>, [username |-> b.username, password |-> pw]) :
             h \in hdrs, b \in {AliceBody, BobBody}, pw \in {"alicepw"} }
    \cup { NewRequest("validate", h, <<>>, NoBody) : h \in hdrs }
    \cup { NewRequest("health", h, <<>>, NoBody) : h \in hdrs }

\* Authorization headers of the two logged-in users
UserHeaders == {Bearer(TokenA), Bearer(TokenB)}

-----------------------------------------------------------------------------
(* Spec: the whole API, one request at a time, alice and bob logged in *)

ApiRequests ==
    CategoryRequests(UserHeaders) \cup TransactionReads(UserHeaders)
    \cup TransactionWrites(UserHeaders) \cup AuthRequests({NoHeader})
    \cup { NewRequest(k, h, <<>>, NoBody) :
             k \in {"catList", "txSummary"}, h \in {NoHeader, Bearer(JunkToken)} }

Handler(r) ==
    \/ GateLookup(r)
    \/ CatList(r) \/ CatByType(r) \/ CatCreateInsert(r) \/ CatCreateReread(r)
    \/ CatUpdateSelect(r) \/ CatUpdateWrite(r) \/ CatUpdateReread(r)
    \/ CatDeleteSelect(r) \/ CatDeleteCount(r) \/ CatDeleteWrite(r)
    \/ TxList(r) \/ TxDateRange(r) \/ TxByType(r) \/ TxMonthly(r)
    \/ TxSummaryIncome(r) \/ TxSummaryExpense(r)
    \/ TxSummaryNowIncome(r) \/ TxSummaryNowExpense(r)
    \/ TxCreateCheck(r) \/ TxCreateInsert(r) \/ TxCreateReread(r)
    \/ TxGet(r)
    \/ TxUpdateSelect(r) \/ TxUpdateCheck(r) \/ TxUpdateWrite(r) \/ TxUpdateReread(r)
    \/ TxDelete(r)
    \/ RegisterSelect(r) \/ Login(r) \/ Validate(r) \/ Health(r)

Init == InitRegistered

Next ==
    \/ \E q \in ApiRequests : Arrive(1, q)
    \/ Handler(1)

Spec == Init /\ [][Next]_vars

-----------------------------------------------------------------------------
(* SpecConc: two requests in flight, the writes of one category and one      *)
(* transaction racing each other                                             *)

ConcRequests ==
    { NewRequest("catCreate", Bearer(TokenA), <<>>, CatBody("Rent", Absent)),
      NewRequest("catUpdate", Bearer(TokenA), <<FirstNewCat>>, CatBody("Gym", "#00ff00")),
      NewRequest("catDelete", Bearer(TokenA), <<FirstNewCat>>, NoBody),
      NewRequest("txCreate", Bearer(TokenA), <<>>, TxBody(100, Jan15, "EXPENSE", FirstNewCat)),
      NewRequest("txCreate", Bearer(TokenB), <<>>, TxBody(100, Jan15, "EXPENSE", FirstNewCat)),
      NewRequest("txCreate", Bearer(TokenA), <<>>, TxBody(100, Jan15, "EXPENSE", 1)),
      NewRequest("txUpdate", Bearer(TokenA), <<1>>, TxBody(250, Jan15, "INCOME", FirstNewCat)),
      NewRequest("txUpdate", Bearer(TokenA), <<1>>, TxBody(250, Jan15, "INCOME", 1)),
      NewRequest("txUpdate", Bearer(TokenB), <<1>>, TxBody(250, Jan15, "INCOME", FirstNewCat)),
      NewRequest("txDelete", Bearer(TokenA), <<1>>, NoBody) }

ConcHandler(r) ==
    \/ GateLookup(r)
    \/ CatCreateInsert(r) \/ CatCreateReread(r)
    \/ CatUpdateSelect(r) \/ CatUpdateWrite(r) \/ CatUpdateReread(r)
    \/ CatDeleteSelect(r) \/ CatDeleteCount(r) \/ CatDeleteWrite(r)
    \/ TxCreateCheck(r) \/ TxCreateInsert(r) \/ TxCreateReread(r)
    \/ TxUpdateSelect(r) \/ TxUpdateCheck(r) \/ TxUpdateWrite(r) \/ TxUpdateReread(r)
    \/ TxDelete(r)

NextConc ==
    \E r \in AllSlots :
        \/ \E q \in ConcRequests : Arrive(r, q)
        \/ ConcHandler(r)

SpecConc == Init /\ [][NextConc]_vars

-----------------------------------------------------------------------------
(* SpecAuth: registration, login and the gate on a fresh database, with the  *)
(* clock running and user rows deleted from outside                          *)

\* what a client can put in the Authorization header: nothing, no token, junk,
\* a token it signed itself, or a token the server issued
AnyHeaders ==
    {NoHeader, BearerOnly, Bearer(JunkToken)}
    \cup { Bearer(Forged(t)) : t \in tokens }
    \cup { Bearer(t) : t \in tokens }

AuthSpecRequests ==
    { NewRequest("register", NoHeader, <<>>, b) : b \in {AliceBody, BobBody} }
    \cup { NewRequest("login", NoHeader, <<>>, [username |-> "alice", password |-> pw]) :
             pw \in {"alicepw", "wrongpw"} }
    \cup { NewRequest("login", NoHeader, <<>>, [username |-> "bob", password |-> "bobspw"]) }
    \cup { NewRequest(k, h, <<>>, NoBody) : k \in {"catList", "validate"}, h \in AnyHeaders }

AuthHandler(r) ==
    \/ GateLookup(r)
    \/ CatList(r)
    \/ RegisterSelect(r) \/ RegisterInsert(r) \/ Login(r) \/ Validate(r)

NextAuth ==
    \/ \E q \in AuthSpecRequests : Arrive(1, q)
    \/ AuthHandler(1)
    \/ Tick
    \/ \E id \in 1..MaxUsers : AdminDeleteUser(id)

SpecAuth == InitFresh /\ [][NextAuth]_vars

-----------------------------------------------------------------------------
(* SpecFault: the API one request at a time, where any statement may throw   *)

\* one well-formed request of each kind, sent by alice
FaultSample(q) ==
    CASE q.kind \in {"catUpdate", "catDelete"} -> q.path[1] = FirstNewCat
      [] q.kind \in {"txGet", "txUpdate", "txDelete"} -> q.path[1] = 1
      [] q.kind = "txList" -> q.path[1] = 0
      [] q.kind \in {"catByType", "txByType"} -> q.path[1] \in TxTypes
      [] q.kind \in {"txMonthly", "txSummaryYM"} -> q.path[2] = Digits(1)
      [] OTHER -> TRUE

FaultRequests ==
    { q \in ApiRequests :
        /\ q.hdr \in {Bearer(TokenA), NoHeader}
        /\ FaultSample(q)
        /\ q.kind \in {"catCreate", "catUpdate"} => categoryValidation(q.body)
        /\ q.kind \in {"txCreate", "txUpdate"} =>
              transactionValidation(q.body) /\ q.body.categoryId = 1
        /\ q.kind \in {"register", "login"} => q.body.username = "alice" }

NextFault ==
    \/ \E q \in FaultRequests : Arrive(1, q)
    \/ Handler(1)
    \/ StmtThrows(1)

SpecFault == Init /\ [][NextFault]_vars

-----------------------------------------------------------------------------
(* SpecRegister: registrations racing each other on a fresh database *)

\* bodies that pass registerValidation: two identities, alice's in other letter
\* case, and bob's username with alice's address
RegisterBodies ==
    {AliceBody, BobBody,
     [AliceBody EXCEPT !.username = "Alice", !.email = "Alice@X.io"],
     [BobBody EXCEPT !.email = "alice@x.io"]}

RegisterRequests == { NewRequest("register", NoHeader, <<>>, b) : b \in RegisterBodies }

NextRegister ==
    \E r \in AllSlots :
        \/ \E q \in RegisterRequests : Arrive(r, q)
        \/ RegisterSelect(r)
        \/ RegisterInsert(r)

SpecRegister == InitFresh /\ [][NextRegister]_vars

-----------------------------------------------------------------------------
(* SpecRead: transactions are created and read back, one request at a time *)

\* what alice and bob record: amounts of 1.00, 2.50 and 1.004, in two months, the
\* notes omitted or sent empty
ReadBodies ==
    { TxBody(1000, Jan15, "INCOME", 1), TxBody(2500, Jan15, "EXPENSE", 1),
      TxBody(1004, Feb03, "EXPENSE", 1),
      [TxBody(1000, Feb03, "INCOME", 1) EXCEPT !.notes = ""] }

\* month path values: "1", "2", "0", "13", "1.5", "1abc"
MonthPaths == {Digits(1), Digits(2), Digits(0), Digits(13), WithFraction(1), WithLetters(1)}

ReadRequests ==
    { NewRequest("txCreate", Bearer(TokenA), <<>>, b) : b \in ReadBodies }
    \cup { NewRequest("txCreate", Bearer(TokenB), <<>>, TxBody(1000, Jan15, "INCOME", 1)) }
    \cup { NewRequest("txList", Bearer(TokenA), p, NoBody) :
             p \in {<<0, 0>>, <<1, 1>>, <<2, 1>>, <<1, 2>>, <<1, 0>>} }
    \cup { NewRequest(k, Bearer(TokenA), <<2024, m>>, NoBody) :
             k \in {"txMonthly", "txSummaryYM"}, m \in MonthPaths }
    \cup { NewRequest("txSummary", h, <<>>, NoBody) : h \in UserHeaders }
    \cup { NewRequest("txGet", Bearer(TokenA), <<id>>, NoBody) : id \in SomeTxIds }

ReadHandler(r) ==
    \/ GateLookup(r)
    \/ TxList(r) \/ TxMonthly(r)
    \/ TxSummaryIncome(r) \/ TxSummaryExpense(r)
    \/ TxSummaryNowIncome(r) \/ TxSummaryNowExpense(r)
    \/ TxCreateCheck(r) \/ TxCreateInsert(r) \/ TxCreateReread(r)
    \/ TxGet(r)

NextRead ==
    \/ \E q \in ReadRequests : Arrive(1, q)
    \/ ReadHandler(1)
    \/ Tick

SpecRead == InitRegistered /\ [][NextRead]_vars

-----------------------------------------------------------------------------
(* SpecRace: two requests in flight; alice creates, updates and deletes one  *)
(* category and one transaction, and requests that are refused run alongside *)

\* two full replacements of the transaction, differing in every field
UpdateBodyA == TxBody(2500, Feb03, "INCOME", 1)
UpdateBodyB ==
    [TxBody(3000, Jan15, "EXPENSE", FirstNewCat) EXCEPT !.description = "food", !.notes = "paid"]

\* two full replacements of the category, the second without a colour
CatUpdateBodyA == CatBody("Gym", "#00ff00")
CatUpdateBodyB == [CatBody("Food", Absent) EXCEPT !.description = "eating out", !.type = "INCOME"]

RaceRequests ==
    { NewRequest("catCreate", Bearer(TokenA), <<>>, CatBody("Rent", Absent)),
      NewRequest("catUpdate", Bearer(TokenA), <<FirstNewCat>>, CatUpdateBodyA),
      NewRequest("catUpdate", Bearer(TokenA), <<FirstNewCat>>, CatUpdateBodyB),
      NewRequest("catDelete", Bearer(TokenA), <<FirstNewCat>>, NoBody),
      NewRequest("txCreate", Bearer(TokenA), <<>>, TxBody(1000, Jan15, "EXPENSE", FirstNewCat)),
      NewRequest("txUpdate", Bearer(TokenA), <<1>>, UpdateBodyA),
      NewRequest("txUpdate", Bearer(TokenA), <<1>>, UpdateBodyB),
      NewRequest("txDelete", Bearer(TokenA), <<1>>, NoBody) }

\* requests that are refused: an invalid body, somebody else's row, a taken
\* username, a wrong password
RefusedRequests ==
    { NewRequest("catUpdate", Bearer(TokenB), <<FirstNewCat>>, CatUpdateBodyA),
      NewRequest("txUpdate", Bearer(TokenA), <<1>>, TxBody(0, Jan15, "EXPENSE", 1)),
      NewRequest("register", NoHeader, <<>>, AliceBody),
      NewRequest("login", NoHeader, <<>>, [username |-> "alice", password |-> "wrongpw"]) }

RaceHandler(r) ==
    \/ GateLookup(r)
    \/ CatCreateInsert(r) \/ CatCreateReread(r)
    \/ CatUpdateSelect(r) \/ CatUpdateWrite(r) \/ CatUpdateReread(r)
    \/ CatDeleteSelect(r) \/ CatDeleteCount(r) \/ CatDeleteWrite(r)
    \/ TxCreateCheck(r) \/ TxCreateInsert(r) \/ TxCreateReread(r)
    \/ TxUpdateSelect(r) \/ TxUpdateCheck(r) \/ TxUpdateWrite(r) \/ TxUpdateReread(r)
    \/ TxDelete(r)
    \/ RegisterSelect(r) \/ Login(r)

NextRace ==
    \E r \in AllSlots :
        \/ \E q \in RaceRequests \cup RefusedRequests : Arrive(r, q)
        \/ RaceHandler(r)

SpecRace == InitRegistered /\ [][NextRace]_vars

-----------------------------------------------------------------------------
(* SpecSeed: runs of initializeDatabase (config/database.js) on a database    *)
(* that starts empty; a run occupies a slot, two runs are two server          *)
(* processes starting against the same database                               *)

\* the database before the first start of the server
InitEmpty ==
    /\ users = {}
    /\ categories = {}
    /\ transactions = {}
    /\ nextUserId = 1
    /\ nextCatId = 1
    /\ nextTxId = 1
    /\ tokens = {}
    /\ now = 0
    /\ checkedOut = 0
    /\ req = [r \in AllSlots |-> Idle]
    /\ resp = NoResp
    /\ client = Unmounted

SeedFrame == UNCHANGED <<users, transactions, nextUserId, nextTxId, tokens, now>>

\* pool.getConnection() and the three CREATE TABLE IF NOT EXISTS
SeedStart(r) ==
    /\ req[r].pc = "idle"
    /\ \A s \in AllSlots : s < r => req[s].pc # "idle"
    /\ CanAcquire(r)
    /\ SeedFrame /\ UNCHANGED <<categories, nextCatId>>
    /\ Goto(r, [Idle EXCEPT !.pc = "count", !.kind = "initializeDatabase", !.conn = TRUE])

\* SELECT COUNT(*) as count FROM categories WHERE is_default = TRUE
CountDefaults(cats) == Cardinality({ c \in cats : c.is_default })

\* lines 82-86: the count, and the decision to seed
SeedCount(r) ==
    /\ At(r, "initializeDatabase", "count")
    /\ SeedFrame /\ UNCHANGED <<categories, nextCatId>>
    /\ Goto(r, [Stmt(req[r]) EXCEPT
                  !.pc = IF CountDefaults(categories) = 0 THEN "seed" ELSE "release",
                  !.loc = 1])

\* the row one pass of the loop inserts: VALUES (?, ?, ?, ?, NULL, TRUE)
DefaultCategoryRow(id, category) ==
    [id |-> id, name |-> category.name, description |-> category.description,
     type |-> category.type, color |-> category.color,
     user_id |-> NULL, is_default |-> TRUE]

\* lines 105-110: one pass of `for (const category of defaultCategories)`
SeedInsert(r) ==
    /\ At(r, "initializeDatabase", "seed")
    /\ SeedFrame
    /\ LET q == req[r] IN
       IF q.loc <= Len(defaultCategories)
       THEN /\ nextCatId <= Len(defaultCategories) + MaxReseeded
            /\ categories' = categories \cup {DefaultCategoryRow(nextCatId, defaultCategories[q.loc])}
            /\ nextCatId' = nextCatId + 1
            /\ Goto(r, [Write(q) EXCEPT !.loc = q.loc + 1])
       ELSE /\ UNCHANGED <<categories, nextCatId>>
            /\ Goto(r, [q EXCEPT !.pc = "release"])

\* lines 114-115: connection.release(); the run is over
SeedRelease(r) ==
    /\ At(r, "initializeDatabase", "release")
    /\ SeedFrame /\ UNCHANGED <<categories, nextCatId>>
    /\ req' = [req EXCEPT ![r] = Idle]
    /\ resp' = NoResp
    /\ checkedOut' = checkedOut - 1
    /\ client' = client

\* the run stops part-way: the process is killed, or a statement throws and the
\* catch calls process.exit(1) (lines 116-119); its connection goes with it
SeedStops(r) ==
    /\ req[r].kind = "initializeDatabase"
    /\ req[r].pc \in {"count", "seed"}
    /\ SeedFrame /\ UNCHANGED <<categories, nextCatId>>
    /\ req' = [req EXCEPT ![r] = Idle]
    /\ resp' = NoResp
    /\ checkedOut' = checkedOut - 1
    /\ client' = client

NextSeed ==
    \E r \in AllSlots :
        SeedStart(r) \/ SeedCount(r) \/ SeedInsert(r) \/ SeedRelease(r) \/ SeedStops(r)

SpecSeed == InitEmpty /\ [][NextSeed]_vars

-----------------------------------------------------------------------------
(* SpecFaultLive: as SpecFault, where a request that can take its next step   *)
(* takes it: the event loop runs every continuation whose await has settled,  *)
(* and pool.getConnection() settles when a connection is free                 *)
(* (waitForConnections: true, queueLimit: 0: it waits without limit)          *)

\* the requests of SpecFault that add no row, so that no bound of the model ever
\* holds one back
LiveRequests == { q \in FaultRequests : q.kind \notin {"catCreate", "txCreate", "register", "login"} }

\* the steps these requests take on a database without user-created rows
LiveHandler(r) ==
    \/ GateLookup(r)
    \/ CatList(r) \/ CatByType(r) \/ CatUpdateSelect(r) \/ CatDeleteSelect(r)
    \/ TxList(r) \/ TxDateRange(r) \/ TxByType(r) \/ TxMonthly(r)
    \/ TxSummaryIncome(r) \/ TxSummaryExpense(r)
    \/ TxSummaryNowIncome(r) \/ TxSummaryNowExpense(r)
    \/ TxGet(r) \/ TxUpdateSelect(r) \/ TxDelete(r)
    \/ Validate(r) \/ Health(r)

NextFaultLive ==
    \/ \E q \in LiveRequests : Arrive(1, q)
    \/ LiveHandler(1)
    \/ StmtThrows(1)

SpecFaultLive == Init /\ [][NextFaultLive]_vars /\ WF_vars(LiveHandler(1))

-----------------------------------------------------------------------------
(* SpecUpdate: categories and transactions are created and updated, one      *)
(* request at a time, by their owner and by the other user                   *)

\* bodies that carry fields the handlers do not read
CatUpdateBodyExtra ==
    [name |-> "Mine", description |-> Absent, color |-> "#123ABC", type |-> "EXPENSE",
     userId |-> 2, isDefault |-> TRUE, id |-> 1]
CatCreateBodyExtra ==
    [name |-> "Toys", description |-> Absent, color |-> Absent, type |-> "EXPENSE",
     userId |-> 2, user_id |-> 2, isDefault |-> TRUE, is_default |-> TRUE]
UpdateBodyExtra ==
    [amount |-> 4000, description |-> "gift", transactionDate |-> Feb03, type |-> "INCOME",
     categoryId |-> 1, notes |-> Absent, userId |-> 2, id |-> 2]

\* an amount of 1.004 and empty notes
UpdateBodyFine == [TxBody(1004, Feb03, "EXPENSE", 1) EXCEPT !.notes = ""]

UpdateRequests ==
    { NewRequest("catCreate", Bearer(TokenA), <<>>, b) :
        b \in {CatBody("Rent", Absent), CatBody("Pets", "#123ABC"), CatCreateBodyExtra} }
    \cup { NewRequest("catUpdate", Bearer(TokenA), <<id>>, b) :
             id \in SomeCatIds,
             b \in {CatUpdateBodyA, CatUpdateBodyB, CatUpdateBodyExtra, CatBody("G", Absent)} }
    \cup { NewRequest("catUpdate", Bearer(TokenB), <<id>>, b) :
             id \in SomeCatIds, b \in {CatUpdateBodyA, CatBody("G", Absent)} }
    \cup { NewRequest("txCreate", h, <<>>, TxBody(1000, Jan15, "EXPENSE", 1)) : h \in UserHeaders }
    \cup { NewRequest("txUpdate", Bearer(TokenA), <<id>>, b) :
             id \in {1, 99},
             b \in {UpdateBodyA, UpdateBodyB, UpdateBodyExtra, UpdateBodyFine,
                    TxBody(1000, Jan15, "EXPENSE", 99), TxBody(0, Jan15, "EXPENSE", 1)} }
    \cup { NewRequest("txUpdate", Bearer(TokenB), <<1>>, b) :
             b \in {UpdateBodyA, TxBody(0, Jan15, "EXPENSE", 1)} }

UpdateHandler(r) ==
    \/ GateLookup(r)
    \/ CatCreateInsert(r) \/ CatCreateReread(r)
    \/ CatUpdateSelect(r) \/ CatUpdateWrite(r) \/ CatUpdateReread(r)
    \/ TxCreateCheck(r) \/ TxCreateInsert(r) \/ TxCreateReread(r)
    \/ TxUpdateSelect(r) \/ TxUpdateCheck(r) \/ TxUpdateWrite(r) \/ TxUpdateReread(r)

NextUpdate ==
    \/ \E q \in UpdateRequests : Arrive(1, q)
    \/ UpdateHandler(1)

SpecUpdate == InitRegistered /\ [][NextUpdate]_vars

-----------------------------------------------------------------------------
(* SpecLastWrite: alice has one category and one transaction, and her updates *)
(* of them run two at a time                                                  *)

RecordedCategory == NewCategoryRow(FirstNewCat, CatBody("Rent", Absent), Alice.id)
RecordedTransaction ==
    NewTransactionRow(1, TxBody(1000, Jan15, "EXPENSE", FirstNewCat), Alice.id, 0)

\* the tables after alice's POST /categories and POST /transactions, no request
\* in flight
InitRecorded ==
    /\ users = {Alice, Bob}
    /\ categories = SeedRows \cup {RecordedCategory}
    /\ transactions = {RecordedTransaction}
    /\ nextUserId = 3
    /\ nextCatId = FirstNewCat + 1
    /\ nextTxId = RecordedTransaction.id + 1
    /\ tokens = {TokenA, TokenB}
    /\ now = 0
    /\ checkedOut = 0
    /\ req = [r \in AllSlots |-> Idle]
    /\ resp = NoResp
    /\ client = Unmounted

LastWriteRequests ==
    { NewRequest("txUpdate", Bearer(TokenA), <<RecordedTransaction.id>>, b) :
        b \in {UpdateBodyA, UpdateBodyB, UpdateBodyExtra} }
    \cup { NewRequest("catUpdate", Bearer(TokenA), <<RecordedCategory.id>>, b) :
             b \in {CatUpdateBodyA, CatUpdateBodyB, CatUpdateBodyExtra} }

LastWriteHandler(r) ==
    \/ GateLookup(r)
    \/ CatUpdateSelect(r) \/ CatUpdateWrite(r) \/ CatUpdateReread(r)
    \/ TxUpdateSelect(r) \/ TxUpdateCheck(r) \/ TxUpdateWrite(r) \/ TxUpdateReread(r)

NextLastWrite ==
    \E r \in AllSlots :
        \/ \E q \in LastWriteRequests : Arrive(r, q)
        \/ LastWriteHandler(r)

SpecLastWrite == InitRecorded /\ [][NextLastWrite]_vars

-----------------------------------------------------------------------------
(* SpecClient: the AuthProvider of one browser tab against the server.  The   *)
(* tab may hold a token from an earlier visit; the clock advances, so that a  *)
(* token expires.  An await ends when the answer of the server arrives.       *)

\* the answer of GET /auth/validate to a request sent with the header hdr
validateAnswer(hdr, usrs, clock) ==
    IF ~HasToken(hdr) THEN [status |-> 401, out |-> <<>>]
    ELSE IF jwtVerify(HeaderToken(hdr), clock) # "ok" THEN [status |-> 403, out |-> <<>>]
    ELSE LET rows == SelectUser(usrs, HeaderToken(hdr).id) IN
         IF rows = {} THEN [status |-> 401, out |-> <<>>]
         ELSE LET user == CHOOSE u \in rows : TRUE IN
              [status |-> 200,
               out |-> [token |-> HeaderToken(hdr), username |-> user.username,
                        email |-> user.email, fullName |-> user.full_name]]

\* the answer of POST /auth/login to the body b
loginAnswer(b, usrs, clock) ==
    LET rows == { u \in usrs : Collate(u.username) = Collate(b.username) }
        user == CHOOSE u \in rows : TRUE
    IN IF ~loginValidation(b) THEN [status |-> 400, out |-> <<>>]
       ELSE IF rows = {} THEN [status |-> unknownUserResponse.status, out |-> <<>>]
       ELSE IF ~bcryptCompare(b.password, user.password)
       THEN [status |-> wrongPasswordResponse.status, out |-> <<>>]
       ELSE [status |-> 200,
             out |-> [token |-> generateToken(user, clock), username |-> user.username,
                      email |-> user.email, fullName |-> user.full_name]]

\* const { token, ...userData } = response.data
userData(data) == [username |-> data.username, email |-> data.email, fullName |-> data.fullName]

ServerIdle == UNCHANGED <<tables, nextUserId, nextCatId, nextTxId, now, checkedOut, req, resp>>

\* the tab opens with or without alice's token of an earlier visit
InitClient ==
    /\ users = {Alice, Bob}
    /\ categories = SeedRows
    /\ transactions = {}
    /\ nextUserId = 3
    /\ nextCatId = Len(defaultCategories) + 1
    /\ nextTxId = 1
    /\ tokens = {TokenA, TokenB}
    /\ now = 0
    /\ checkedOut = 0
    /\ req = [r \in AllSlots |-> Idle]
    /\ resp = NoResp
    /\ \E stored \in {<<>>, <<TokenA>>} : client = [Unmounted EXCEPT !.localStorage = stored]

\* useEffect, lines 25-33; validateToken runs up to its await (line 37)
Mount ==
    /\ ~client.mounted
    /\ ServerIdle /\ UNCHANGED tokens
    /\ IF client.localStorage # <<>>
       THEN client' = [client EXCEPT !.mounted = TRUE,
                                     !.Authorization = Bearer(client.localStorage[1]),
                                     !.validating = <<Bearer(client.localStorage[1])>>]
       ELSE client' = [client EXCEPT !.mounted = TRUE, !.loading = FALSE]

\* validateToken, lines 37-38 and 42-44: the await resolves
ValidateResolves ==
    /\ client.validating # <<>>
    /\ ServerIdle /\ UNCHANGED tokens
    /\ LET response == validateAnswer(client.validating[1], users, now) IN
       /\ response.status = 200
       /\ client' = [client EXCEPT !.user = <<response.out>>,
                                   !.loading = FALSE,
                                   !.validating = <<>>]

\* validateToken, lines 39-44: the await rejects
ValidateRejects ==
    /\ client.validating # <<>>
    /\ ServerIdle /\ UNCHANGED tokens
    /\ validateAnswer(client.validating[1], users, now).status # 200
    /\ client' = [client EXCEPT !.localStorage = <<>>,
                                !.Authorization = NoHeader,
                                !.loading = FALSE,
                                !.validating = <<>>]

\* login, lines 47-49: the call up to its await
LoginCall(b) ==
    /\ client.mounted
    /\ client.calls < MaxClientLogins
    /\ ServerIdle /\ UNCHANGED tokens
    /\ client' = [client EXCEPT !.calls = client.calls + 1,
                                !.logins = client.logins \cup {[n |-> client.calls + 1, body |-> b]}]

\* login, lines 50-56: the await resolves
LoginResolves(c) ==
    /\ c \in client.logins
    /\ ServerIdle
    /\ LET response == loginAnswer(c.body, users, now) IN
       /\ response.status = 200
       /\ tokens' = tokens \cup {response.out.token}
       /\ client' = [client EXCEPT !.localStorage = <<response.out.token>>,
                                   !.Authorization = Bearer(response.out.token),
                                   !.user = <<userData(response.out)>>,
                                   !.logins = client.logins \ {c}]

\* login, lines 57-63: the await rejects
LoginRejects(c) ==
    /\ c \in client.logins
    /\ ServerIdle /\ UNCHANGED tokens
    /\ loginAnswer(c.body, users, now).status # 200
    /\ client' = [client EXCEPT !.logins = client.logins \ {c}]

\* logout, lines 79-83
Logout ==
    /\ client.mounted
    /\ ServerIdle /\ UNCHANGED tokens
    /\ client' = [client EXCEPT !.localStorage = <<>>,
                                !.Authorization = NoHeader,
                                !.user = <<>>]

LoginBodies ==
    { [username |-> "alice", password |-> pw] : pw \in {AliceBody.password, "wrongpw"} }

NextClient ==
    \/ Mount
    \/ ValidateResolves
    \/ ValidateRejects
    \/ \E b \in LoginBodies : LoginCall(b)
    \/ \E c \in client.logins : LoginResolves(c)
    \/ \E c \in client.logins : LoginRejects(c)
    \/ Logout
    \/ Tick

SpecClient == InitClient /\ [][NextClient]_vars

\* the tab is mounted and the answer to GET /auth/validate arrives
SpecClientLive ==
    SpecClient /\ WF_vars(Mount) /\ WF_vars(ValidateResolves) /\ WF_vars(ValidateRejects)

-----------------------------------------------------------------------------
(* Claims *)

HandlerPcs == {"h1", "h2", "h3", "h4"}
InFlight(r) == req[r].pc # "idle"
Quiet == \A r \in AllSlots : ~InFlight(r)

\* the token is malformed, wrongly signed, or expired at time t
TokenBad(t, clock) == ~t.wellFormed \/ t.key # JWT_SECRET \/ clock >= t.exp

\* the gate answered the request when it arrived
RefusedOnArrival == resp.req.pc = "arrived" /\ Gated(resp.req.kind)

C1_Refusal ==
    RefusedOnArrival =>
        /\ resp.req.nextCalls = 0
        /\ ~HasToken(resp.req.hdr) => resp.status = 401
        /\ HasToken(resp.req.hdr) =>
              TokenBad(HeaderToken(resp.req.hdr), now) /\ resp.status = 403

C1_Admission(r) ==
    (req[r].pc = "idle" /\ req'[r].pc # "idle" /\ Gated(req'[r].kind)) =>
        /\ req'[r].pc = "gate"
        /\ req'[r].nextCalls = 0
        /\ HasToken(req'[r].hdr)
        /\ ~TokenBad(HeaderToken(req'[r].hdr), now)

C1_Lookup(r) ==
    (req[r].pc = "gate" /\ req'[r] # req[r]) =>
        LET id == HeaderToken(req[r].hdr).id IN
        IF \A u \in users : u.id # id
        THEN /\ req'[r] = Idle
             /\ resp'.status = 401
             /\ resp'.req.nextCalls = 0
        ELSE /\ resp' = NoResp
             /\ req'[r].pc = "h1"
             /\ req'[r].nextCalls = 1
             /\ \E u \in users :
                   /\ u.id = id
                   /\ req'[r].user = [id |-> u.id, username |-> u.username,
                                      email |-> u.email, full_name |-> u.full_name]

\* C1: authenticateToken answers 401 without a token, 403 for a malformed, wrongly
\* signed or expired token, 401 when no user row has the claimed id, never calling
\* next(); otherwise it calls next() exactly once with req.user set to that user's
\* id, username, email and full name.
C1_Gate ==
    [][ /\ C1_Refusal'
        /\ \A r \in AllSlots : C1_Admission(r) /\ C1_Lookup(r) ]_vars

\* the gate found no row for the id of a token that verified
C1_Witness ==
    /\ Gated(resp.req.kind)
    /\ resp.req.pc = "gate"
    /\ resp.status = 401
    /\ ~TokenBad(HeaderToken(resp.req.hdr), now)

\* authenticateToken called next() for q, having found the user of q's token
Authenticated(q) ==
    /\ q.nextCalls = 1
    /\ HasToken(q.hdr)
    /\ HeaderToken(q.hdr) \in tokens
    /\ q.user.id = HeaderToken(q.hdr).id
    /\ q.user.id # NULL

\* C2: no handler under /api/transactions or /api/categories executes a statement
\* for a request the gate has not resolved to an existing user; register, login and
\* the health check are served without a token.
C2_GateIsMandatory ==
    /\ \A r \in AllSlots :
          (req[r].kind \in TransactionKinds \cup CategoryKinds /\ req[r].pc \in HandlerPcs)
              => Authenticated(req[r])
    /\ (resp.req.kind \in TransactionKinds \cup CategoryKinds /\ resp.req.stmts > 0)
          => Authenticated(resp.req)
    /\ (resp.req.kind \in {"register", "login", "health"} /\ ~HasToken(resp.req.hdr))
          => /\ resp.req.pc = "h1"
             /\ resp.status \in {200, 201, 400, 401}
             /\ resp.err \in {"", "Validation failed", "Username or email already exists",
                              "Invalid username or password!"}

\* a transaction handler has run its statements for an authenticated request
C2_Witness ==
    /\ resp.req.kind = "txCreate"
    /\ resp.status = 201
    /\ resp.req.stmts = 3

\* C3: once all requests have finished, no pool connection is checked out,
\* also when a query has thrown.
C3_AllReleased == Quiet => checkedOut = 0

\* the handler of the request in slot r sends its response in this step
Responds(r) == req[r].pc \in HandlerPcs /\ req'[r] = Idle

\* the request in slot r takes a step
Steps(r) == InFlight(r) /\ req'[r] # req[r]

\* rows with the id q names that belong to somebody else / to the caller
ForeignTx(q) == { t \in transactions : t.id = q.path[1] /\ t.user_id # q.user.id }
OwnTx(q) == { t \in transactions : t.id = q.path[1] /\ t.user_id = q.user.id }

\* the caller's transactions
Mine(q) == { t \in transactions : t.user_id = q.user.id }
InMonth(t, ym) == t.transaction_date[1] = ym[1] /\ t.transaction_date[2] = ym[2]

\* what the read handlers may answer: nothing of another user
C4_Reads ==
    resp.status = 200 =>
      /\ resp.req.kind \in {"txList", "txDateRange", "txByType", "txMonthly"} =>
            \A i \in DOMAIN resp.out : \E t \in Mine(resp.req) : t.id = resp.out[i].id
      /\ resp.req.kind = "txGet" => \E t \in Mine(resp.req) : t.id = resp.out.id
      /\ resp.req.kind \in {"txSummary", "txSummaryYM"} =>
            /\ resp.out.income =
                 SumAmount({ t \in Mine(resp.req) :
                             t.type = "INCOME" /\ InMonth(t, <<resp.out.year, resp.out.month>>) })
            /\ resp.out.expense =
                 SumAmount({ t \in Mine(resp.req) :
                             t.type = "EXPENSE" /\ InMonth(t, <<resp.out.year, resp.out.month>>) })

\* get, update and delete of somebody else's transaction; `validated` says whether
\* an update whose body fails validation is answered 400 instead
C4_Foreign(r, validated) ==
    LET q == req[r] IN
    (q.kind \in {"txGet", "txUpdate", "txDelete"} /\ q.pc = "h1" /\ Steps(r) /\ ForeignTx(q) # {}) =>
        /\ req'[r] = Idle
        /\ resp'.status = IF validated /\ q.kind = "txUpdate" /\ ~transactionValidation(q.body)
                          THEN 400 ELSE 404
        /\ transactions' = transactions

\* the owner's delete removes that row and nothing else
C4_OwnDelete(r) ==
    LET q == req[r] IN
    (q.kind = "txDelete" /\ q.pc = "h1" /\ Steps(r) /\ OwnTx(q) # {}) =>
        /\ resp'.status = 200
        /\ transactions' = transactions \ OwnTx(q)
        /\ Cardinality(transactions') = Cardinality(transactions) - 1
        /\ UNCHANGED <<users, categories>>

\* no step of a request touches a transaction of another user
C4_Frame(r) ==
    Steps(r) /\ req[r].pc \in HandlerPcs =>
        { t \in transactions : t.user_id # req[r].user.id }
          = { t \in transactions' : t.user_id # req[r].user.id }

\* C4 (as amended): B's get and delete of A's transaction answer 404, B's update
\* answers 404 when its body passes validation and 400 when it does not, all leave
\* the row unchanged; none of B's lists or summaries include or count it; A's
\* delete removes exactly that row.
C4_Isolation ==
    [][ /\ C4_Reads'
        /\ \A r \in AllSlots : C4_Foreign(r, TRUE) /\ C4_OwnDelete(r) /\ C4_Frame(r) ]_vars

\* C4 (as claimed): B's get, update and delete of A's transaction all answer 404.
C4_AsClaimed ==
    [][ /\ C4_Reads'
        /\ \A r \in AllSlots : C4_Foreign(r, FALSE) /\ C4_OwnDelete(r) /\ C4_Frame(r) ]_vars

\* B's well-formed update of A's transaction was answered 404, the row still there
C4_Witness ==
    /\ resp.req.kind = "txUpdate"
    /\ resp.status = 404
    /\ ForeignTx(resp.req) # {}

\* the category with this id is a non-default category of somebody else
ForeignCategory(catId, userId) ==
    \E c \in categories : c.id = catId /\ ~c.is_default /\ c.user_id # userId

\* the category lists never show a category of another user
C5_Lists ==
    (resp.req.kind \in {"catList", "catByType"} /\ resp.status = 200) =>
        \A c \in resp.out : c.is_default \/ c.user_id = resp.req.user.id

\* a transaction create or update that names somebody else's category; `found`
\* says whether an update of a transaction the caller does not own is answered 404
C5_Naming(r, found) ==
    LET q == req[r] IN
    (q.kind \in {"txCreate", "txUpdate"} /\ Responds(r)
       /\ ForeignCategory(q.body.categoryId, q.user.id)) =>
        /\ resp'.status = IF found /\ q.kind = "txUpdate" /\ transactionValidation(q.body)
                             /\ OwnTx(q) = {}
                          THEN 404 ELSE 400
        /\ UNCHANGED tables

\* update and delete of somebody else's category; `validated` says whether an
\* update whose body fails validation is answered 400 instead
C5_Foreign(r, validated) ==
    LET q == req[r] IN
    (q.kind \in {"catUpdate", "catDelete"} /\ q.pc = "h1" /\ Steps(r)
       /\ ForeignCategory(q.path[1], q.user.id)) =>
        /\ req'[r] = Idle
        /\ resp'.status = IF validated /\ q.kind = "catUpdate" /\ ~categoryValidation(q.body)
                          THEN 400 ELSE 403
        /\ UNCHANGED tables

\* no step of a request touches a category of another user
C5_Frame(r) ==
    Steps(r) /\ req[r].pc \in HandlerPcs =>
        { c \in categories : c.user_id # req[r].user.id }
          = { c \in categories' : c.user_id # req[r].user.id }

\* C5 (as amended): a non-default category of A is in none of B's category lists;
\* B's transaction create naming it answers 400; B's transaction update naming it
\* answers 400, or 404 when the body is valid and B owns no transaction with that
\* id; B's update of the category answers 403 when the body passes validation and
\* 400 when it does not; B's delete answers 403; the category is left unchanged.
C5_Isolation ==
    [][ /\ C5_Lists'
        /\ \A r \in AllSlots : C5_Naming(r, TRUE) /\ C5_Foreign(r, TRUE) /\ C5_Frame(r) ]_vars

\* C5 (as claimed): B's transaction create and update naming A's category answer
\* 400 and B's update and delete of the category answer 403.
C5_AsClaimed ==
    [][ /\ C5_Lists'
        /\ \A r \in AllSlots : C5_Naming(r, FALSE) /\ C5_Foreign(r, FALSE) /\ C5_Frame(r) ]_vars

\* B's well-formed update of A's category was answered 403, the category still there
C5_Witness ==
    /\ resp.req.kind = "catUpdate"
    /\ resp.status = 403
    /\ categoryValidation(resp.req.body)
    /\ ForeignCategory(resp.req.path[1], resp.req.user.id)

\* the rows seeded as defaults
DefaultRows == { c \in categories : c.is_default }

\* update and delete of a default category; `validated` as in C5_Foreign
C6_Refused(r, validated) ==
    LET q == req[r] IN
    (q.kind \in {"catUpdate", "catDelete"} /\ q.pc = "h1" /\ Steps(r)
       /\ \E c \in DefaultRows : c.id = q.path[1]) =>
        /\ req'[r] = Idle
        /\ resp'.status = IF validated /\ q.kind = "catUpdate" /\ ~categoryValidation(q.body)
                          THEN 400 ELSE 403
        /\ UNCHANGED tables

\* every list of categories holds every default, and the defaults stay as seeded
C6_Defaults ==
    /\ DefaultRows = SeedRows
    /\ (resp.req.kind = "catList" /\ resp.status = 200) => SeedRows \subseteq resp.out

\* C6 (as amended): every default category is in every user's category list; an
\* update of a default category answers 403 when its body passes validation and 400
\* when it does not, a delete answers 403; the default rows are those of the seeding
\* in every reachable state.
C6_DefaultsImmutable ==
    [][ C6_Defaults' /\ \A r \in AllSlots : C6_Refused(r, TRUE) ]_vars

\* C6 (as claimed): update and delete of a default category by any user answer 403.
C6_AsClaimed ==
    [][ C6_Defaults' /\ \A r \in AllSlots : C6_Refused(r, FALSE) ]_vars

\* a well-formed update of a default category was answered 403
C6_Witness ==
    /\ resp.req.kind = "catUpdate"
    /\ resp.status = 403
    /\ categoryValidation(resp.req.body)
    /\ \E c \in DefaultRows : c.id = resp.req.path[1]

\* the caller's own non-default category named by q, and the transactions referencing it
OwnCategory(q) ==
    { c \in categories : c.id = q.path[1] /\ ~c.is_default /\ c.user_id = q.user.id }
Referencing(catId) == { t \in transactions : t.category_id = catId }

\* the step of slot r that answers a delete of an existing category; `owned` says
\* whether a category that is not the caller's own is answered 403 instead
C7_Delete(r, owned) ==
    LET q == req[r]
        target == { c \in categories : c.id = q.path[1] }
    IN
    (q.kind = "catDelete" /\ Responds(r) /\ target # {}) =>
        IF Referencing(q.path[1]) # {}
        THEN /\ resp'.status = IF owned /\ OwnCategory(q) = {} THEN 403 ELSE 400
             /\ resp'.status = 400 =>
                    resp'.err = "Cannot delete category that is being used in transactions"
             /\ UNCHANGED tables
        ELSE IF OwnCategory(q) = {}
        THEN /\ resp'.status = 403
             /\ UNCHANGED tables
        ELSE /\ resp'.status = 200
             /\ categories' = categories \ target
             /\ Cardinality(categories') = Cardinality(categories) - 1
             /\ UNCHANGED <<users, transactions>>

C8_ReferentialIntegrity ==
    \A t \in transactions : \E c \in categories : c.id = t.category_id

\* the foreign key refused a write whose category a racing delete had removed
C8_Witness ==
    /\ resp.status = 500
    /\ resp.err = "ER_NO_REFERENCED_ROW"
    /\ resp.req.kind \in {"txCreate", "txUpdate"}
    /\ \A c \in categories : c.id # resp.req.body.categoryId
    /\ transactions # {}

\* the category named by the body is not visible to the caller
NotVisible(q) ==
    \A c \in categories : c.id = q.body.categoryId => ~c.is_default /\ c.user_id # q.user.id

\* a create naming a category the caller cannot see; `validated` says whether a
\* body that fails validation is answered 'Validation failed' instead
C9_Create(r, validated) ==
    LET q == req[r] IN
    (q.kind = "txCreate" /\ q.pc = "h1" /\ Steps(r) /\ NotVisible(q)) =>
        /\ req'[r] = Idle
        /\ resp'.status = 400
        /\ resp'.err = IF validated /\ ~transactionValidation(q.body)
                       THEN "Validation failed" ELSE "Invalid category"
        /\ UNCHANGED tables
        /\ nextTxId' = nextTxId

\* C9 (as amended): a transaction create whose categoryId is neither a default
\* category nor a category of the caller answers 400, with 'Invalid category' when
\* the body passes validation and 'Validation failed' when it does not, and inserts
\* no row.
C9_InvalidCategory == [][ \A r \in AllSlots : C9_Create(r, TRUE) ]_vars

\* C9 (as claimed): such a create answers 400 'Invalid category'.
C9_AsClaimed == [][ \A r \in AllSlots : C9_Create(r, FALSE) ]_vars

\* a create naming another user's existing category was answered 'Invalid category'
C9_Witness ==
    /\ resp.req.kind = "txCreate"
    /\ resp.status = 400
    /\ resp.err = "Invalid category"
    /\ ForeignCategory(resp.req.body.categoryId, resp.req.user.id)

\* C10: in every reachable state every stored transaction's category is a default
\* category or a category owned by the transaction's owner.
C10_CategoryVisibleToOwner ==
    \A t \in transactions :
        \E c \in categories :
            c.id = t.category_id /\ (c.is_default \/ c.user_id = t.user_id)

\* a transaction stored with a category its owner created, others having tried it
C10_Witness ==
    /\ \E t \in transactions : \E c \in categories :
          c.id = t.category_id /\ ~c.is_default /\ c.user_id = t.user_id
    /\ resp.req.kind \in {"txCreate", "txUpdate"}
    /\ resp.status = 400
    /\ ForeignCategory(resp.req.body.categoryId, resp.req.user.id)

\* the rows a login body names with the password they were registered with
Registered(b) ==
    { u \in users : u.username = b.username /\ u.password = bcryptHash(b.password) }

\* a registration that succeeds stores the submitted identity and issues no token
C11_Register(r) ==
    LET q == req[r] IN
    (q.kind = "register" /\ Responds(r) /\ resp'.status = 201) =>
        /\ \E u \in users' \ users :
              /\ users' = users \cup {u}
              /\ u.username = q.body.username
              /\ u.password = bcryptHash(q.body.password)
              /\ u.full_name = q.body.fullName
        /\ resp'.out = "User registered successfully!"
        /\ tokens' = tokens

\* a login with the registered username and password, while the row exists
C11_Login(r) ==
    LET q == req[r] IN
    (q.kind = "login" /\ Responds(r) /\ Registered(q.body) # {}) =>
        /\ resp'.status = 200
        /\ \E u \in Registered(q.body) :
              /\ resp'.out.username = u.username
              /\ resp'.out.email = u.email
              /\ resp'.out.fullName = u.full_name
              /\ resp'.out.token.id = u.id
        /\ jwtVerify(resp'.out.token, now) = "ok"

\* C11: a registration that succeeds returns no token and stores the username and
\* the password; from then on, while that user row exists, a login with the same
\* username and password answers 200 with a token the server accepts and the
\* row's username, email and full name.
C11_RegisterThenLogin ==
    [][ \A r \in AllSlots : C11_Register(r) /\ C11_Login(r) ]_vars

\* alice, registered and not deleted, has logged in
C11_Witness ==
    /\ resp.req.kind = "login"
    /\ resp.status = 200
    /\ resp.out.username = "alice"
    /\ Registered(resp.req.body) # {}

\* a login that names no user, or a user with another password
C12_Refused(r) ==
    LET q == req[r]
        named == { u \in users : Collate(u.username) = Collate(q.body.username) }
    IN
    (q.kind = "login" /\ Responds(r) /\ loginValidation(q.body)
       /\ (named = {} \/ \A u \in named : u.password # bcryptHash(q.body.password))) =>
        /\ resp'.status = 401
        /\ resp'.err = "Invalid username or password!"
        /\ resp'.out = <<>>
        /\ tokens' = tokens

\* C12: a login with an unknown username and a login with a known username and a
\* wrong password are both answered 401 with the one error body
\* 'Invalid username or password!', so no two such responses differ.
C12_NoUserOracle == [][ \A r \in AllSlots : C12_Refused(r) ]_vars

\* a known username with a wrong password was refused
C12_Witness ==
    /\ resp.req.kind = "login"
    /\ resp.status = 401
    /\ \E u \in users : u.username = resp.req.body.username

\* the username or the email of the body belongs to a user row
IdentityTaken(b) ==
    \E u \in users : \/ Collate(u.username) = Collate(b.username)
                     \/ Collate(u.email) = Collate(normalizeEmail(b.email))

\* C13 (as claimed): a register request whose username or email belongs to an
\* existing user, created before the request began or by a registration interleaved
\* with it, is answered 400 'Username or email already exists' and adds no user row.
C13_Conflict ==
    [][ \A r \in AllSlots :
          (req[r].kind = "register" /\ Responds(r) /\ IdentityTaken(req[r].body)) =>
              /\ resp'.status = 400
              /\ resp'.err = "Username or email already exists"
              /\ users' = users ]_vars

\* C14: in every reachable state, registrations interleaved in any way, no two user
\* rows share a username and no two share an email.
C14_UniqueIdentities ==
    \A u, v \in users :
        u # v => /\ Collate(u.username) # Collate(v.username)
                 /\ Collate(u.email) # Collate(v.email)

\* the UNIQUE keys refused the insert of a registration that lost the race
C14_Witness ==
    /\ resp.req.kind = "register"
    /\ resp.status = 500
    /\ resp.req.stmts = 2
    /\ IdentityTaken(resp.req.body)

\* a request arrives in slot r in this step; Arrived(r) is that request
Arrives(r) == req[r].pc = "idle" /\ (req'[r].pc # "idle" \/ resp'.req.pc = "arrived")
Arrived(r) == IF req'[r].pc # "idle" THEN req'[r] ELSE resp'.req

\* the header carries a token the server issued at a login
Issued(hdr) == HasToken(hdr) /\ HeaderToken(hdr) \in tokens

\* the user of the token's id exists
TokenUserExists(hdr) == \E u \in users : u.id = HeaderToken(hdr).id

\* the gate, when a request with an issued token arrives
C15_Arrival(r) ==
    (Arrives(r) /\ Gated(Arrived(r).kind) /\ Issued(Arrived(r).hdr)) =>
        IF now >= HeaderToken(Arrived(r).hdr).exp
        THEN /\ req'[r] = Idle
             /\ resp'.status = 403
             /\ resp'.req.nextCalls = 0
        ELSE req'[r].pc = "gate"

\* the gate's lookup for a token that verified before its expiration time
C15_Lookup(r) ==
    (req[r].pc = "gate" /\ Steps(r) /\ Issued(req[r].hdr) /\ TokenUserExists(req[r].hdr)) =>
        req'[r].pc = "h1" /\ req'[r].nextCalls = 1

\* /auth/validate, presented with an issued token
C15_Validate(r) ==
    (req[r].kind = "validate" /\ Responds(r) /\ Issued(req[r].hdr)) =>
        IF now >= HeaderToken(req[r].hdr).exp
        THEN resp'.status = 403
        ELSE TokenUserExists(req[r].hdr) => resp'.status = 200

\* C15: a token issued at login with expiration time E is accepted by the gate and
\* by /auth/validate at every time before E while its user exists, and answered 403
\* at every time at or after E; a request presenting it at or after E never gets
\* past the gate.
C15_Expiry ==
    [][ \A r \in AllSlots : C15_Arrival(r) /\ C15_Lookup(r) /\ C15_Validate(r) ]_vars

\* an issued token was refused by the gate at exactly its expiration time
C15_Witness ==
    /\ Gated(resp.req.kind)
    /\ Issued(resp.req.hdr)
    /\ HeaderToken(resp.req.hdr).exp = now
    /\ resp.status = 403

\* what authenticateToken decides for a header, a clock time and a users table:
\* the status it answers, 200 standing for next()
gateDecision(hdr, clock, usrs) ==
    IF authenticateTokenCheck(hdr, clock).status # 0
    THEN authenticateTokenCheck(hdr, clock).status
    ELSE IF authenticateTokenFound(SelectUser(usrs, HeaderToken(hdr).id)).status # 0
    THEN authenticateTokenFound(SelectUser(usrs, HeaderToken(hdr).id)).status
    ELSE 200

\* /auth/validate answers what the gate decides, and on acceptance the token and the
\* user's current fields
C16_Validate(r) ==
    LET q == req[r] IN
    (q.kind = "validate" /\ Responds(r)) =>
        /\ resp'.status = gateDecision(q.hdr, now, users)
        /\ resp'.status = 200 =>
              /\ resp'.out.token = HeaderToken(q.hdr)
              /\ \E u \in users :
                    /\ u.id = HeaderToken(q.hdr).id
                    /\ resp'.out.username = u.username
                    /\ resp'.out.email = u.email
                    /\ resp'.out.fullName = u.full_name

\* the gate itself, on the same inputs: a refusal on arrival, or the lookup
C16_Gate(r) ==
    /\ (Arrives(r) /\ Gated(Arrived(r).kind)) =>
          IF req'[r] = Idle
          THEN resp'.status = gateDecision(Arrived(r).hdr, now, users)
          ELSE authenticateTokenCheck(Arrived(r).hdr, now).status = 0
    /\ (req[r].pc = "gate" /\ Steps(r)) =>
          IF req'[r] = Idle
          THEN resp'.status = 401 /\ ~TokenUserExists(req[r].hdr)
          ELSE TokenUserExists(req[r].hdr)

\* C16: for every Authorization header, clock time and users table, GET
\* /auth/validate answers the status authenticateToken decides (401 without a
\* token, 403 for an invalid or expired token, 401 when the user is missing), and
\* on acceptance returns the presented token with the user's current username,
\* email and full name.
C16_ValidateAsGate ==
    [][ \A r \in AllSlots : C16_Validate(r) /\ C16_Gate(r) ]_vars

\* /auth/validate answered 401 for a good token whose user row is gone
C16_Witness ==
    /\ resp.req.kind = "validate"
    /\ resp.status = 401
    /\ HasToken(resp.req.hdr)
    /\ ~TokenBad(HeaderToken(resp.req.hdr), now)

-----------------------------------------------------------------------------
(* C17: the monthly summaries *)

\* the last response is a summary
Summarised == resp.req.kind \in {"txSummary", "txSummaryYM"} /\ resp.status = 200

\* the year and month the last summary was asked for: the ones of the path, or
\* the current ones for GET /summary; a month of 1..12 written as an integer
SummaryMonthPlain ==
    resp.req.kind = "txSummaryYM" => resp.req.path[2] \in { Digits(m) : m \in 1..12 }
SummaryYearMonth ==
    IF resp.req.kind = "txSummaryYM"
    THEN <<resp.req.path[1], resp.req.path[2].whole>>
    ELSE resp.req.path

\* the caller's transactions of a type in the month of the last summary
SummaryRows(type) ==
    { t \in Mine(resp.req) : t.type = type /\ InMonth(t, SummaryYearMonth) }

-----------------------------------------------------------------------------
(* C18: pagination *)

\* the slice of a full list that page p of size s is: ranks (p-1)*s+1 .. min(p*s, N)
Ranks(full, p, s) ==
    [i \in 1..(IF p * s < Len(full) THEN s
               ELSE IF (p - 1) * s < Len(full) THEN Len(full) - (p - 1) * s ELSE 0)
       |-> full[(p - 1) * s + i]]

\* GET /?page=p&size=s answers with the ranks of page p of the caller's list in the
\* order (transaction date descending, creation time descending), whichever list
\* in that order the ranks are counted in, and with the whole list when page or
\* size is missing
C18_List(r) ==
    LET q == req[r] IN
    (q.kind = "txList" /\ q.pc = "h1" /\ Responds(r)) =>
        /\ resp'.status = 200
        /\ \A full \in Orderings(Joined(Mine(q), categories)) :
             resp'.out = IF q.path[1] >= 1 /\ q.path[2] >= 1
                         THEN Ranks(full, q.path[1], q.path[2]) ELSE full

\* C18: page p of size s holds exactly the transactions ranked (p-1)*s+1 to
\* min(p*s, N) by transaction date and creation time, both descending, so that the
\* pages put one after the other are the unpaginated list, no transaction twice
\* and none missing; without page or size the whole list is returned
C18_Pages == [][\A r \in AllSlots : C18_List(r)]_vars

-----------------------------------------------------------------------------
(* C19: a created transaction read back *)

\* what GET /:id answers the user for an id
Fetched(id, userId) == Joined(SelectOwnTransaction(transactions, id, userId), categories)

\* a response carries what the body b submitted: the amount (sent in tenths of a
\* cent, answered in cents), the description, date and type, the category named
\* and its name, type and colour, and the notes, null when none were sent
AsSubmitted(out, b) ==
    /\ out.amount * 10 = b.amount
    /\ out.description = b.description
    /\ out.transactionDate = b.transactionDate
    /\ out.type = b.type
    /\ \E c \in categories :
         /\ c.id = b.categoryId
         /\ out.category = [id |-> c.id, name |-> c.name, type |-> c.type, color |-> c.color]
    /\ out.notes = IF b.notes \in {Absent, NullStr} THEN NullStr ELSE b.notes
    /\ out.notes = "" => b.notes = ""

\* POST / answers 201 with an id under which the caller fetches what was submitted
C19_Create(r) ==
    LET q == req[r] IN
    (q.kind = "txCreate" /\ Responds(r) /\ resp'.status = 201) =>
        /\ AsSubmitted(resp'.out, q.body)
        /\ Fetched(resp'.out.id, q.user.id) # {}
        /\ \A out \in Fetched(resp'.out.id, q.user.id) : AsSubmitted(out, q.body)

\* GET /:id answers 200 with the stored transaction
C19_Get(r) ==
    LET q == req[r] IN
    (q.kind = "txGet" /\ Responds(r) /\ resp'.status = 200) =>
        resp'.out \in Fetched(q.path[1], q.user.id)

\* C19: for every body the transaction validation accepts, the transaction
\* created from it and fetched by the id returned has the amount, description,
\* date, type, category (id, name, type, colour) and notes that were submitted,
\* the notes null, never the empty string, when they were omitted or null
C19_RoundTrip == [][\A r \in AllSlots : C19_Create(r) /\ C19_Get(r)]_vars

-----------------------------------------------------------------------------
(* C20: the month of /monthly/:year/:month and /summary/:year/:month *)

\* the month path values that are an integer in 1..12
MonthsOfYear == { Digits(m) : m \in 1..12 }

\* the caller's transactions dated in the year and month of the path
OfPathMonth(q) == { t \in Mine(q) : InMonth(t, <<q.path[1], q.path[2].whole>>) }

\* a month that is not an integer in 1..12 is answered 400 before any statement
C20_Refused(r) ==
    LET q == req[r] IN
    (q.kind \in {"txMonthly", "txSummaryYM"} /\ q.pc = "h1" /\ Steps(r)
       /\ q.path[2] \notin MonthsOfYear) =>
        /\ req'[r] = Idle
        /\ resp'.status = 400
        /\ resp'.req.stmts = q.stmts

\* for a month in 1..12 the answer is made of the caller's transactions of that
\* year and month, and of nothing else
C20_Answered(r) ==
    LET q == req[r] IN
    (q.kind \in {"txMonthly", "txSummaryYM"} /\ Responds(r) /\ q.path[2] \in MonthsOfYear) =>
        /\ resp'.status = 200
        /\ q.kind = "txMonthly" =>
             { resp'.out[i].id : i \in DOMAIN resp'.out } = { t.id : t \in OfPathMonth(q) }
        /\ q.kind = "txSummaryYM" =>
             /\ resp'.out.income = SumAmount({ t \in OfPathMonth(q) : t.type = "INCOME" })
             /\ resp'.out.expense = SumAmount({ t \in OfPathMonth(q) : t.type = "EXPENSE" })

\* C20: GET /transactions/monthly/:year/:month and GET /transactions/summary/:year/:month
\* answer 400, without running a query, whenever the month in the path is not an
\* integer in 1..12, and for a month in 1..12 answer with the caller's transactions
\* of that year and month only
C20_MonthChecked == [][\A r \in AllSlots : C20_Refused(r) /\ C20_Answered(r)]_vars

-----------------------------------------------------------------------------
(* C21: refused requests change nothing *)

ClientErrors == {400, 401, 403, 404}

\* a step of the request in slot r that changes a table is a statement the
\* request is marked with
C21_Marked(r) ==
    (Steps(r) /\ tables' # tables) =>
        IF req'[r] = Idle THEN resp'.req.wrote ELSE req'[r].wrote

\* a handler that answers 400, 401, 403 or 404 has changed no row, neither in the
\* step that answers nor in a statement before it
C21_Refused(r) ==
    (Responds(r) /\ resp'.status \in ClientErrors) =>
        /\ ~resp'.req.wrote
        /\ tables' = tables

\* C21: a request that register, login or a transaction or category handler
\* answers with 400, 401, 403 or 404 leaves the users, categories and transactions
\* tables as they were: every check that can refuse it comes before its first
\* INSERT, UPDATE or DELETE that changes a row
C21_Frame == [][\A r \in AllSlots : C21_Marked(r) /\ C21_Refused(r)]_vars

\* bob's update of alice's category was refused after the category was looked up
C21_Witness ==
    /\ resp.status = 403 /\ resp.req.kind = "catUpdate"
    /\ \E c \in categories : c.id = resp.req.path[1] /\ c.user_id # resp.req.user.id

-----------------------------------------------------------------------------
(* C22: the default categories after initializeDatabase *)

\* the default rows are the fixed twelve, each present once
TwelveDefaults ==
    /\ Cardinality({ c \in categories : c.is_default }) = Len(defaultCategories)
    /\ \A i \in 1..Len(defaultCategories) :
         \E id \in 1..nextCatId : DefaultCategoryRow(id, defaultCategories[i]) \in categories
    /\ Cardinality({ c \in categories : c.is_default /\ c.type = "INCOME" }) = 4
    /\ Cardinality({ c \in categories : c.is_default /\ c.type = "EXPENSE" }) = 8

\* a run of initializeDatabase comes to its end
C22_RunEnds(r) == At(r, "initializeDatabase", "release") /\ req'[r] = Idle

\* a run that found default categories inserted none
C22_InsertsNone(r) ==
    (At(r, "initializeDatabase", "count") /\ req'[r].pc = "release" /\ CountDefaults(categories) > 0)
        => req'[r].loc = 1 /\ categories' = categories

\* C22: at the end of every run of initializeDatabase, whatever runs came before,
\* also runs that stopped part-way and runs that overlap it, the default categories
\* are exactly the fixed twelve (4 INCOME, 8 EXPENSE), each present once; and a run
\* that finds default categories present inserts none
C22_SeededOnce ==
    [][\A r \in AllSlots : (C22_RunEnds(r) => TwelveDefaults') /\ C22_InsertsNone(r)]_vars

-----------------------------------------------------------------------------
(* C23: every request is answered *)

\* C23: every request, whatever requests came before it and however they ended
\* (refused, failed inside the gate, failed inside a handler), is eventually
\* answered; none waits forever for a connection of the pool
C23_EveryRequestAnswered == \A r \in AllSlots : InFlight(r) ~> ~InFlight(r)

-----------------------------------------------------------------------------
(* C24: updating a transaction *)

\* the answer of PUT /transactions/:id, given what the tables hold when it is sent
C24_Update(r) ==
    LET q == req[r] IN
    (q.kind = "txUpdate" /\ Responds(r)) =>
        IF OwnTx(q) = {}
        THEN resp'.status = 404 /\ transactions' = transactions
        ELSE IF SelectVisibleCategory(categories, q.body.categoryId, q.user.id) = {}
        THEN resp'.status = 400 /\ transactions' = transactions
        ELSE /\ resp'.status = 200
             /\ AsSubmitted(resp'.out, q.body)
             /\ resp'.out \in Fetched(q.path[1], q.user.id)

\* C24: an update of a transaction answers 404 when no row has the id and the
\* caller as owner, otherwise 400 when the categoryId is neither a default
\* category nor one of the caller's, and otherwise replaces amount, description,
\* date, type, category and notes by the values submitted and answers with the
\* row as stored after the update, joined with its category
C24_UpdateTransaction == [][\A r \in AllSlots : C24_Update(r)]_vars

-----------------------------------------------------------------------------
(* C25: updating a category *)

\* the answer of PUT /categories/:id; `anyBody` says whether the existence and
\* ownership checks come first for every body, or only for a body that passes
\* categoryValidation, a body that fails it being answered 400 at once
C25_Update(r, anyBody) ==
    LET q == req[r]
        rows == SelectCategory(categories, q.path[1])
        category == CHOOSE c \in rows : TRUE
    IN (q.kind = "catUpdate" /\ q.pc = "h1" /\ Steps(r)) =>
        IF ~anyBody /\ ~categoryValidation(q.body)
        THEN /\ req'[r] = Idle /\ resp'.status = 400 /\ resp'.err = "Validation failed"
             /\ resp'.req.stmts = q.stmts
        ELSE IF rows = {}
        THEN req'[r] = Idle /\ resp'.status = 404
        ELSE IF category.is_default \/ category.user_id # q.user.id
        THEN req'[r] = Idle /\ resp'.status = 403
        ELSE IF ~categoryValidation(q.body)
        THEN req'[r] = Idle /\ resp'.status = 400
        ELSE req'[r].pc = "h2"

\* the UPDATE applies the body, the colour kept when the body has none
C25_Applied(r) ==
    LET q == req[r] IN
    (q.kind = "catUpdate" /\ q.pc = "h2" /\ Steps(r)) =>
        \A c \in categories : c.id = q.path[1] =>
            \E d \in categories' :
                /\ d.id = c.id
                /\ d.name = q.body.name /\ d.type = q.body.type
                /\ d.color = IF q.body.color = Absent THEN c.color ELSE q.body.color

\* C25 (as this code has it): an update of a category whose body passes
\* categoryValidation answers 404 when no category has the id and 403 when the
\* category is a default one or somebody else's, and is applied only when both
\* checks pass, the stored colour kept when the body has none; a body that fails
\* categoryValidation is answered 400 before the category is looked up
C25_UpdateGuard == [][\A r \in AllSlots : C25_Update(r, FALSE) /\ C25_Applied(r)]_vars

\* C25 as claimed: 404 and 403 are answered for every request body, and the body
\* is validated only when both checks have passed
C25_AsClaimed == [][\A r \in AllSlots : C25_Update(r, TRUE) /\ C25_Applied(r)]_vars

\* alice's update without a colour was applied and answered with the colour the
\* category had
C25_Witness ==
    /\ resp.req.kind = "catUpdate" /\ resp.status = 200
    /\ resp.req.body.color = Absent
    /\ \E c \in resp.out : c.name = resp.req.body.name /\ c.color = "#123ABC"

-----------------------------------------------------------------------------
(* C26: updates of the same row that interleave *)

\* the transaction row holds the whole of the body b
StoredAs(t, b) ==
    /\ t.amount * 10 = b.amount
    /\ t.description = b.description
    /\ t.transaction_date = b.transactionDate
    /\ t.type = b.type
    /\ t.category_id = b.categoryId
    /\ t.notes = IF b.notes = Absent THEN NullStr ELSE b.notes

\* the category row holds the whole of the body b, the colour being the one the
\* handler read when b has none
CategoryStoredAs(c, b, category) ==
    /\ c.name = b.name
    /\ c.description = IF b.description = Absent THEN NullStr ELSE b.description
    /\ c.type = b.type
    /\ c.color = IF b.color = Absent THEN category.color ELSE b.color

\* no update of the owner is refused
C26_Accepted(r) == Responds(r) => resp'.status = 200

\* an UPDATE statement leaves its row holding the whole of its own body; no
\* other step changes a row
C26_LastWrite(r) ==
    LET q == req[r] IN
    Steps(r) =>
        IF q.kind = "txUpdate" /\ q.pc = "h3"
        THEN /\ \E t \in transactions' : t.id = q.path[1] /\ StoredAs(t, q.body)
             /\ Cardinality(transactions') = 1
             /\ UNCHANGED <<users, categories>>
        ELSE IF q.kind = "catUpdate" /\ q.pc = "h2"
        THEN /\ \E c \in categories' : c.id = q.path[1] /\ CategoryStoredAs(c, q.body, q.loc)
             /\ Cardinality(categories') = Cardinality(categories)
             /\ UNCHANGED <<users, transactions>>
        ELSE UNCHANGED tables

\* C26: when updates of the same transaction, or of the same category, by its
\* owner interleave, none is refused because of the other, each answers 200, and
\* the row stored in the end holds the whole input of the update whose UPDATE
\* statement ran last, never fields of both
C26_LastWriteWins == [][\A r \in AllSlots : C26_Accepted(r) /\ C26_LastWrite(r)]_vars

\* two updates of the transaction with different bodies have both run their
\* UPDATE and neither has answered yet
C26_Witness ==
    /\ \A r \in AllSlots : req[r].kind = "txUpdate" /\ req[r].pc = "h4"
    /\ req[1].body # req[2].body
    /\ \E t \in transactions : \E r \in AllSlots : StoredAs(t, req[r].body)

-----------------------------------------------------------------------------
(* C27: an update racing a delete, a create racing the delete of its category *)

\* an update whose category is still there is answered with the updated row or
\* with the 404 of a row that is gone (400 for a body that is refused)
C27_UpdateAnswer(r) ==
    LET q == req[r] IN
    /\ Responds(r)
    /\ q.kind = "txUpdate"
    /\ \E c \in categories : c.id = q.body.categoryId
    => \/ resp'.status = 200 /\ resp'.out.id = q.path[1]
       \/ resp'.status = 404 /\ resp'.err = "Transaction not found"
       \/ resp'.status = 400

\* a create that is answered at its visibility check or at its INSERT is
\* answered 400
C27_CreateAnswer(r) ==
    Responds(r) /\ req[r].kind = "txCreate" /\ req[r].pc \in {"h1", "h2"}
        => resp'.status = 400

\* C27: an update that interleaves with a delete of the same transaction by the
\* same user answers 200 with the updated row or 404 'Transaction not found',
\* and a create whose category is deleted between the visibility check and the
\* INSERT answers 400; neither answers 500
C27_RaceAnswers == [][\A r \in AllSlots : C27_UpdateAnswer(r) /\ C27_CreateAnswer(r)]_vars

-----------------------------------------------------------------------------
(* C28: the owner of a row *)

\* every transaction is still there under its id with its owner
C28_TransactionOwners ==
    \/ UNCHANGED transactions
    \/ \A t \in transactions :
          \E u \in transactions' : u.id = t.id /\ u.user_id = t.user_id

\* every category is still there under its id with its owner and its flag
C28_CategoryOwners ==
    \/ UNCHANGED categories
    \/ \A c \in categories :
          \E d \in categories' :
              d.id = c.id /\ d.user_id = c.user_id /\ d.is_default = c.is_default

\* an id names one row
C28_OneRowPerId ==
    /\ Cardinality({ t.id : t \in transactions' }) = Cardinality(transactions')
    /\ Cardinality({ c.id : c \in categories' }) = Cardinality(categories')

\* C28: no operation of the API changes the owner of a row: an update of a
\* transaction leaves its id and user_id, an update of a category leaves its id,
\* user_id and is_default, whatever the body holds (fields such as userId or
\* isDefault have no effect)
C28_OwnerKept ==
    [][C28_TransactionOwners /\ C28_CategoryOwners /\ C28_OneRowPerId]_vars

\* an update whose body names another owner has been applied and answered 200,
\* and the row is still the caller's
C28_Witness ==
    /\ resp.status = 200
    /\ resp.req.kind \in {"catUpdate", "txUpdate"}
    /\ "userId" \in DOMAIN resp.req.body
    /\ resp.req.body.userId # resp.req.user.id
    /\ resp.req.wrote
    /\ resp.req.kind = "catUpdate" =>
           \E c \in categories : /\ c.id = resp.req.path[1]
                                 /\ c.name = resp.req.body.name
                                 /\ c.user_id = resp.req.user.id
    /\ resp.req.kind = "txUpdate" =>
           \E t \in transactions : /\ t.id = resp.req.path[1]
                                   /\ t.description = resp.req.body.description
                                   /\ t.user_id = resp.req.user.id

-----------------------------------------------------------------------------
(* C29: default categories and the categories of users *)

\* a row is a default exactly when it has no owner; the seeded rows are defaults
C29_Flag ==
    /\ \A c \in categories : c.is_default <=> c.user_id = NULL
    /\ \A c \in categories : c.id <= Len(defaultCategories) => c.is_default /\ c.user_id = NULL

\* a row that appears was inserted by a POST /categories and is the caller's,
\* not a default, with the fixed colour when the body has none
C29_Created ==
    \A c \in categories' \ categories :
        (\A d \in categories : d.id # c.id) =>
            \E r \in AllSlots :
                /\ At(r, "catCreate", "h1")
                /\ c.user_id = req[r].user.id
                /\ c.is_default = FALSE
                /\ c.color = IF req[r].body.color = Absent THEN "#FF6B6B" ELSE req[r].body.color

\* no step changes the owner or the flag of a row that is there
C29_Kept ==
    \A d \in categories' \ categories : \A c \in categories :
        d.id = c.id => d.user_id = c.user_id /\ d.is_default = c.is_default

\* C29: in every reachable state a category row has is_default true exactly when
\* its user_id is NULL: the seeded rows have user_id NULL and is_default TRUE,
\* the rows of POST /categories have the caller's id and is_default FALSE (and
\* the colour '#FF6B6B' when none is given), and no later operation changes
\* either field
C29_DefaultsHaveNoOwner == []C29_Flag /\ [][C29_Created /\ C29_Kept]_vars

\* a category made by POST /categories has since been updated by its owner and
\* is still the owner's and no default, beside the seeded defaults
C29_Witness ==
    /\ resp.status = 200
    /\ resp.req.kind = "catUpdate"
    /\ resp.req.wrote
    /\ \E c \in categories :
         /\ c.id = resp.req.path[1]
         /\ c.id > Len(defaultCategories)
         /\ c.user_id = Alice.id
         /\ c.is_default = FALSE
    /\ \E c \in categories : c.is_default

-----------------------------------------------------------------------------
(* C30: the AuthProvider of the client *)

\* while a user is set, a token is stored and the default header carries it
C30_SignedIn ==
    client.user # <<>> =>
        /\ client.localStorage # <<>>
        /\ client.Authorization = Bearer(client.localStorage[1])

\* logout leaves no user, no token and no header
C30_SignedOut ==
    Logout => /\ client'.user = <<>>
              /\ client'.localStorage = <<>>
              /\ client'.Authorization = NoHeader

\* C30: under every interleaving of the validateToken of the mount, login and
\* logout, whenever user is non-null a token is stored in localStorage and the
\* axios default Authorization header is 'Bearer ' + that token, and after
\* logout user is null, the token removed and the header absent
C30_UserHasToken == []C30_SignedIn /\ [][C30_SignedOut]_vars

\* once the answer to GET /auth/validate has arrived, loading is false for good
LoadingEnds == <>[](~client.loading)
====
